---- MODULE Spec2Model ----
(***************************************************************************)
(* The 6502 simulator of src/6502sim.js: the interpreter                   *)
(* (executeInstruction), the step loop (doInstruction), the scheduler      *)
(* (execute, pauseProgram, the setInterval step timer, brkInterrupt and    *)
(* its deferred setTimeout callback) and the host input handlers           *)
(* (window.onkeydown, window.onmousedown).                                 *)
(*                                                                         *)
(* JavaScript runs one callback at a time, so every handler is one atomic  *)
(* action.  The machine state is passed through the handlers' code as a    *)
(* record s; Cur builds it from the variables and Commit writes it back.   *)
(***************************************************************************)
EXTENDS Integers, Sequences, FiniteSets, TLC

VARIABLES
  A, X, Y,                  \* MPU.A, MPU.X, MPU.Y
  SP,                       \* stack.SP
  PC,                       \* memory.PC (the memoryObj's PC property)
  flags,                    \* P.flags
  mem,                      \* the memoryObj's array: written cells only
  memory,                   \* what the global `memory` refers to
  instructionTimer,         \* null, false or the id of a setInterval
  programExecuting,
  debugOn,
  timers,                   \* host: ids of the setInterval timers still active
  timeouts,                 \* host: brkInterrupt callbacks queued by setTimeout
  checked,                  \* history: the interrupt checkbox as the last handler read it
  inputbox,                 \* host: the program text the assembler reads
  executed,                 \* history: instructions fetched by the last handler
  ended,                    \* history: "halt" (HLT ran) or "stop" (Escape), "no" after an execute request
  irqCount,                 \* history: interrupt dispatches since the last start
  stackTouched,             \* history: addresses the last handler's pushes and pulls accessed
  deviceCalls,              \* history: the calls of screen.drawPixel, screen.clear and beep by the last handler
  output,                   \* host: the character codes appended to the output box
  waiting,                  \* history: <<p>> from a WAI at p until the program it suspended runs on
  labels,                   \* label name -> address
  constants,                \* constant name -> value
  labelTracker,             \* address, operand, address, operand, ... of the word references
  labelByteTracker,         \* the same for the byte references
  branchTracker,            \* the same for the branch operands
  statusWindow,             \* the error lines and the closing line of the last assembly
  assembleReturn            \* history: how the last handler's assembleProgram() ended, "no" if it called none

vars == << A, X, Y, SP, PC, flags, mem, memory, instructionTimer,
           programExecuting, debugOn, timers, timeouts, checked, inputbox,
           executed, ended, irqCount, stackTouched, deviceCalls, output, waiting,
           labels, constants, labelTracker,
           labelByteTracker, branchTracker, statusWindow, assembleReturn >>

(***************************************************************************)
(* Bounds of the model.                                                    *)
(***************************************************************************)
MaxIterations == 2     \* executionIterations: steps per timer tick, 1..MaxIterations
MaxTimers == 2         \* setInterval timers alive at once
MaxTimeouts == 1       \* deferred interrupt callbacks queued at once
MaxIrq == 1            \* interrupt dispatches per program start
MaxDefs == 3            \* DEFINE directives and label definitions of a program of SpecNames
MaxPush == 3           \* PHA/PLA pairs of the stack round-trip programs

(***************************************************************************)
(* JavaScript values.  A cell, a register or PC holds a number, undefined  *)
(* or NaN; the two non-numbers are integers far outside every number the   *)
(* machine computes.                                                       *)
(***************************************************************************)
undefined == -1000001
NaN == -1000002
null == 0              \* instructionTimer = null
timerFalse == -1       \* instructionTimer = false (WAI)
size == 65536          \* memory.size

\* undefined and NaN are the two integers below every number.
IsNum(v) == v > undefined

\* ToInt32: the bitwise operators read undefined and NaN as 0.
ToInt(v) == IF IsNum(v) THEN v ELSE 0

\* a + b, a - b: NaN when either side is not a number.
Plus(a, b) == IF IsNum(a) /\ IsNum(b) THEN a + b ELSE NaN
Minus(a, b) == IF IsNum(a) /\ IsNum(b) THEN a - b ELSE NaN

\* Comparisons with undefined or NaN are false.
Lt(a, b) == IsNum(a) /\ IsNum(b) /\ a < b
Gt(a, b) == IsNum(a) /\ IsNum(b) /\ a > b
Ge(a, b) == IsNum(a) /\ IsNum(b) /\ a >= b

RECURSIVE AndN(_, _, _)
AndN(a, b, n) ==
  IF n = 0 \/ a = 0 \/ b = 0 THEN 0
  ELSE (a % 2) * (b % 2) + 2 * AndN(a \div 2, b \div 2, n - 1)

RECURSIVE OrN(_, _, _)
OrN(a, b, n) ==
  IF n = 0 \/ (a = 0 /\ b = 0) THEN 0
  ELSE (IF (a % 2) + (b % 2) > 0 THEN 1 ELSE 0) + 2 * OrN(a \div 2, b \div 2, n - 1)

RECURSIVE XorN(_, _, _)
XorN(a, b, n) ==
  IF n = 0 \/ (a = 0 /\ b = 0) THEN 0
  ELSE ((a + b) % 2) + 2 * XorN(a \div 2, b \div 2, n - 1)

\* a & b, a | b, a ^ b, ~a on 32-bit two's complement.  Every use below has a
\* non-negative operand or mask, so the unsigned reading is the JavaScript one.
And(a, b) == AndN(ToInt(a), ToInt(b), 32)
Or(a, b) == OrN(ToInt(a), ToInt(b), 32)
Xor(a, b) == XorN(ToInt(a), ToInt(b), 32)
Not(a) == (0 - ToInt(a)) - 1
Shl8(a) == ToInt(a) * 256
Shr8(a) == ToInt(a) \div 256

\* getTwosComplement reading the byte as unsigned.
getTwosComplementUnsigned(v) == v

getTwosComplement(v) ==
  IF And(v, 128) # 0 THEN 0 - (And(Not(v), 255) + 1) ELSE v

(***************************************************************************)
(* memoryObj                                                               *)
(***************************************************************************)
\* mem[addr]: a hole of the array reads undefined.
read(s, addr) == IF addr \in DOMAIN s.mem THEN s.mem[addr] ELSE undefined

Store(m, addr, v) ==
  [a \in (DOMAIN m) \cup {addr} |-> IF a = addr THEN v ELSE m[a]]

readWord(s, addr) == Or(read(s, addr), Shl8(read(s, Plus(addr, 1))))

\* writeByte(v, addr) with addr given.  The screen and the beeper are sinks; the
\* clear-screen and beep cells are written back to 0.
writeByte(s, v, addr) ==
  LET write(s1, a) ==
        IF ~IsNum(v) THEN [s1 EXCEPT !.mem = Store(s1.mem, a, v)]
        ELSE IF a > 511 /\ a < 1712
          THEN [s1 EXCEPT !.mem = Store(s1.mem, a, And(v, 255)),
                          !.calls = Append(@, <<"drawPixel", (a - 512) % 40,
                                                (a - 512) \div 40, And(v, 255)>>)]
        ELSE IF a = 1712 /\ v > 0
          THEN [s1 EXCEPT !.mem = Store(s1.mem, a, 0), !.calls = Append(@, <<"clear">>)]
        ELSE IF a = 1713 /\ v > 0
          THEN [s1 EXCEPT !.mem = Store(s1.mem, a, 0), !.calls = Append(@, <<"beep">>)]
        ELSE [s1 EXCEPT !.mem = Store(s1.mem, a, And(v, 255))]
  IN  write(IF addr = undefined THEN [s EXCEPT !.PC = Plus(s.PC, 1)] ELSE s,
            IF addr = undefined THEN s.PC ELSE addr)

\* A method call on `memory` after it stopped referring to the memoryObj is a
\* TypeError; memory.PC then reads undefined.
Throw(s) == [s EXCEPT !.threw = TRUE]
MemPC(s) == IF s.memory.obj THEN s.PC ELSE undefined

(***************************************************************************)
(* PObj                                                                    *)
(***************************************************************************)
setBit(f, v) == Or(f, 2 ^ v)
clearBit(f, v) == And(f, Not(2 ^ v))
setZN(f, v) ==
  LET zero(f1) == IF v = 0 THEN Or(f1, 2) ELSE And(f1, 253)
  IN  zero(IF And(v, 128) > 0 THEN Or(f, 160) ELSE And(f, 127))
FlagC(f) == And(f, 1) > 0
FlagZ(f) == And(f, 2) > 0
FlagI(f) == And(f, 4) > 0
FlagD(f) == And(f, 8) > 0
FlagV(f) == And(f, 64) > 0
FlagN(f) == And(f, 128) > 0

(***************************************************************************)
(* stackObj                                                                *)
(***************************************************************************)
\* push() without the wrap of the stack pointer from 0x00 to 0xFF.
pushSPNoWrap(sp) == sp - 1

\* push(val): the stack pointer after the push; s.touched collects the
\* addresses the pushes and pulls of a handler access.
pushSP(sp) == IF sp - 1 < 0 THEN 255 ELSE sp - 1
push(s, val) ==
  IF ~s.memory.obj THEN Throw(s)
  ELSE [writeByte(s, val, 256 + s.SP) EXCEPT
          !.SP = pushSP(s.SP), !.touched = @ \cup {256 + s.SP}]

\* pull() without the wrap of the stack pointer from 0xFF to 0x00.
pullSPNoWrap(sp) == sp + 1

\* pull(): the stack pointer after the pull, and the value it returns.
pullSP(sp) == IF sp + 1 > 255 THEN 0 ELSE sp + 1
pull(s) ==
  [s EXCEPT !.SP = pullSP(s.SP), !.threw = ~s.memory.obj,
            !.touched = IF s.memory.obj THEN @ \cup {256 + pullSP(s.SP)} ELSE @]
top(s) == read(s, 256 + s.SP)

(***************************************************************************)
(* Host timers                                                             *)
(***************************************************************************)
\* clearInterval(instructionTimer); instructionTimer = v
clearTimer(s, v) ==
  [s EXCEPT !.timers = s.timers \ {s.instructionTimer}, !.instructionTimer = v]

\* instructionTimer = setInterval(doInstruction, interval): the timer it
\* replaces is not cleared.
FreshTimer(ts) == CHOOSE i \in 1..(Cardinality(ts) + 1) : i \notin ts
setTimer(s) ==
  LET id == FreshTimer(s.timers)
  IN  [s EXCEPT !.timers = s.timers \cup {id}, !.instructionTimer = id]

(***************************************************************************)
(* The interpreter                                                         *)
(***************************************************************************)
\* The 156 opcodes executeInstruction has a case for.
Implemented ==
  { 0, 1, 2, 5, 6, 8, 9, 10, 13, 14, 16, 17, 21, 22, 24, 25, 29, 30, 32, 33,
    36, 37, 38, 40, 41, 42, 44, 45, 46, 48, 49, 53, 54, 56, 57, 61, 62, 64,
    65, 69, 70, 72, 73, 74, 76, 77, 78, 80, 81, 85, 86, 88, 89, 93, 94, 96,
    97, 101, 102, 104, 105, 106, 108, 109, 110, 112, 113, 117, 118, 120, 121,
    125, 126, 129, 132, 133, 134, 136, 138, 140, 141, 142, 144, 145, 148,
    149, 150, 152, 153, 154, 157, 160, 161, 162, 164, 165, 166, 168, 169,
    170, 172, 173, 174, 176, 177, 180, 181, 182, 184, 185, 186, 188, 189,
    190, 192, 193, 196, 197, 198, 200, 201, 202, 204, 205, 206, 208, 209,
    213, 214, 216, 217, 221, 222, 224, 225, 228, 229, 230, 232, 233, 234,
    236, 237, 238, 240, 241, 242, 243, 245, 246, 247, 248, 249, 250, 253,
    254 }

\* The opcodes whose case is translated below.
Modelled ==
  { 0, 2, 8, 16, 24, 32, 36, 40, 44, 48, 56, 64, 70, 72, 74, 76, 78, 80, 86,
    88, 94, 96, 97, 101, 104, 105, 108, 109, 112, 113, 117, 120, 121, 125, 129,
    133, 141, 144, 145, 149, 153, 154, 157, 161, 162, 165, 166, 169, 173, 174,
    176, 177, 181, 182, 185, 189, 190, 208, 216, 224, 225, 228, 229, 232, 233,
    234, 236, 237, 240, 241, 242, 245, 247, 248, 249, 253 }

\* The decimal branch without the correction of a high digit above 9.
adcDecimalNoHighFix(s, b, c, f1) ==
  LET low(al0) == IF al0 >= 10 THEN And(al0 + 6, 15) + 16 ELSE al0
      negative(a1) == IF And(a1, 128) # 0 THEN setBit(f1, 7) ELSE clearBit(f1, 7)
      carry(f2, a1) ==
        [s EXCEPT !.A = And(a1, 255),
                  !.flags = IF a1 >= 256 THEN setBit(f2, 0) ELSE clearBit(f2, 0)]
      high(a1) == carry(negative(a1), a1)
      sum(al) == high(And(s.A, 240) + And(b, 240) + al)
  IN  sum(low(And(s.A, 15) + And(b, 15) + c))

\* ADC, the branch taken when P.D is set.
adcDecimal(s, b, c, f1) ==
  LET low(al0) == IF al0 >= 10 THEN And(al0 + 6, 15) + 16 ELSE al0
      negative(a1) == IF And(a1, 128) # 0 THEN setBit(f1, 7) ELSE clearBit(f1, 7)
      overflow(f2, zna) ==
        IF Lt(zna, -128) \/ Gt(zna, 127) THEN setBit(f2, 6) ELSE clearBit(f2, 6)
      carry(f3, a2) ==
        [s EXCEPT !.A = And(a2, 255),
                  !.flags = IF a2 >= 256 THEN setBit(f3, 0) ELSE clearBit(f3, 0)]
      high(a1, al) ==
        carry(overflow(negative(a1),
                       Plus(Plus(getTwosComplement(a1), getTwosComplement(b)),
                            getTwosComplement(al))),
              IF a1 >= 160 THEN a1 + 96 ELSE a1)
      sum(al) == high(And(s.A, 240) + And(b, 240) + al, al)
  IN  sum(low(And(s.A, 15) + And(b, 15) + c))

\* The binary branch storing the sum without its bit 7.
adcBinaryLow7(s, b, binary_sum, f1) ==
  LET carry(f2) == IF Gt(binary_sum, 255) THEN setBit(f2, 0) ELSE clearBit(f2, 0)
      overflow == IF And(Xor(s.A, b), 128) = 0 /\ And(Xor(b, binary_sum), 128) # 0
                    THEN setBit(f1, 6) ELSE clearBit(f1, 6)
  IN  [s EXCEPT !.A = And(binary_sum, 127), !.flags = carry(overflow)]

\* ADC, the branch taken when P.D is clear.
adcBinary(s, b, binary_sum, f1) ==
  LET carry(f2) == IF Gt(binary_sum, 255) THEN setBit(f2, 0) ELSE clearBit(f2, 0)
      overflow == IF And(Xor(s.A, b), 128) = 0 /\ And(Xor(b, binary_sum), 128) # 0
                    THEN setBit(f1, 6) ELSE clearBit(f1, 6)
  IN  [s EXCEPT !.A = And(binary_sum, 255), !.flags = carry(overflow)]

\* case 0x69, 0x65, 0x75, 0x6d, 0x7d, 0x79, 0x61, 0x71: ADC of the operand b.
\* Every case ends with memory.PC += 2.
ADC(s, b) ==
  LET advance(s1) == [s1 EXCEPT !.PC = s.PC + 2]
      flag(c, binary_sum, f1) ==
        advance(IF FlagD(f1) THEN adcDecimal(s, b, c, f1)
                             ELSE adcBinary(s, b, binary_sum, f1))
      sum(c, binary_sum) == flag(c, binary_sum, setZN(s.flags, And(binary_sum, 255)))
      add(c) == sum(c, Plus(Plus(s.A, b), c))
  IN  add(IF FlagC(s.flags) THEN 1 ELSE 0)

\* case 0x69: ADC Immediate
ADCImmediate(s) == ADC(s, read(s, s.PC + 1))

\* The operand b of the SBC opcode at PC.
SBCOperand(s, op) ==
  LET operand(b, word) ==
        CASE op = 233 -> b                                           \* Immediate
          [] op = 229 -> read(s, b)                                  \* Zero Page
          [] op = 245 -> read(s, And(Plus(b, s.X), 255))             \* Zero Page X
          [] op = 237 -> read(s, word)                               \* Absolute
          [] op = 253 -> read(s, And(Plus(word, s.X), 65535))        \* Absolute X
          [] op = 249 -> read(s, And(Plus(word, s.Y), 65535))        \* Absolute Y
          [] op = 225 -> read(s, readWord(s, And(Plus(b, s.X), 255)))
          [] op = 241 -> read(s, And(Plus(readWord(s, b), s.Y), 65535))
  IN  operand(read(s, s.PC + 1), readWord(s, s.PC + 1))

\* case 0xe9, 0xe5, 0xf5, 0xed, 0xfd, 0xf9, 0xe1, 0xf1: SBC.  Indirect X
\* leaves A alone; Indirect Y stores the binary difference, in decimal mode
\* only.  Every case ends with memory.PC += 2.
SBC(s, op) ==
  LET low(al) == IF al < 0 THEN And(al - 6, 15) - 16 ELSE al
      high(a) == And(IF a < 0 THEN a - 96 ELSE a, 255)
      decimal_diff(b, c) ==
        high(And(s.A, 240) - And(b, 240) + low(And(s.A, 15) - And(b, 15) - c))
      overflow(f, twos) ==
        IF Lt(twos, -128) \/ Gt(twos, 127) THEN setBit(f, 6) ELSE clearBit(f, 6)
      carry(f, binary_diff) ==
        IF Ge(binary_diff, 0) THEN setBit(f, 0) ELSE clearBit(f, 0)
      difference(b, c, binary_diff) ==
        [s EXCEPT
           !.A = CASE op = 225 -> s.A
                   [] op = 241 -> IF FlagD(s.flags) THEN And(binary_diff, 255) ELSE s.A
                   [] OTHER -> IF FlagD(s.flags) THEN decimal_diff(b, c)
                               ELSE And(binary_diff, 255),
           !.flags = carry(overflow(setZN(s.flags, binary_diff),
                                    Minus(Minus(getTwosComplement(s.A),
                                                getTwosComplement(b)), c)),
                           binary_diff),
           !.PC = s.PC + 2]
      subtract(b, c) == difference(b, c, Minus(Minus(s.A, b), c))
  IN  subtract(SBCOperand(s, op), IF FlagC(s.flags) THEN 0 ELSE 1)

\* The addressing mode named by the comment of the opcode's case.
AddressingMode(op) ==
  CASE op = 105 -> "im"
    [] op \in {101, 165, 166, 133, 228, 70, 36} -> "zp"
    [] op \in {117, 181, 149, 86} -> "zpx"
    [] op = 182 -> "zpy"
    [] op \in {109, 173, 174, 141, 236, 78, 44} -> "abs"
    [] op \in {125, 189, 157, 94} -> "abx"
    [] op \in {121, 185, 190, 153} -> "aby"
    [] op \in {97, 161, 129} -> "inx"
    [] op \in {113, 177, 145} -> "iny"

\* The address the opcode at PC works on: of its operand byte when immediate.
EffectiveAddress(s, op) ==
  LET address(mode, operand, word) ==
        CASE mode = "im" -> s.PC + 1
          [] mode = "zp" -> operand
          [] mode = "zpx" -> And(Plus(operand, s.X), 255)
          [] mode = "zpy" -> And(Plus(operand, s.Y), 255)
          [] mode = "abs" -> word
          [] mode = "abx" -> And(Plus(word, s.X), 65535)
          [] mode = "aby" -> And(Plus(word, s.Y), 65535)
          [] mode = "inx" -> readWord(s, And(Plus(operand, s.X), 255))
          [] mode = "iny" -> And(Plus(readWord(s, operand), s.Y), 65535)
  IN  address(AddressingMode(op), read(s, s.PC + 1), readWord(s, s.PC + 1))

\* The opcodes whose case ends with memory.PC += 3; the other cases on a
\* memory operand end with memory.PC += 2.
Advance(op) ==
  IF op \in {173, 189, 185, 174, 190, 141, 157, 153, 78, 94, 44, 236} THEN 3 ELSE 2

\* (v >>> 1) & 127
Shr1(v) == And(ToInt(v) \div 2, 127)

\* case 0x4a: LSR Accumulator.  Z is set from the shifted accumulator.
LSRAccumulator(s) ==
  LET zero(f, a) == IF a = 0 THEN setBit(f, 1) ELSE clearBit(f, 1)
      carry(f) == IF And(s.A, 1) # 0 THEN setBit(f, 0) ELSE clearBit(f, 0)
      shift(f, a) == [s EXCEPT !.A = a, !.flags = zero(f, a), !.PC = @ + 1]
  IN  shift(carry(clearBit(s.flags, 7)), Shr1(s.A))

\* case 0x46, 0x56, 0x4e, 0x5e: the flags after LSR on the byte b read from
\* memory.  Z is set from the byte read, (b == 0).
LSRFlags(f, b) ==
  LET zero(f1) == IF b = 0 THEN setBit(f1, 1) ELSE clearBit(f1, 1)
      carry(f1) == IF And(b, 1) # 0 THEN setBit(f1, 0) ELSE clearBit(f1, 0)
  IN  zero(carry(clearBit(f, 7)))

\* case 0x24, 0x2c: the flags after BIT.  t = A & m; V from bit 6 of t; setZN(t).
BITFlags(f, t) ==
  setZN(IF And(t, 64) # 0 THEN setBit(f, 6) ELSE clearBit(f, 6), t)

\* case 0xe4, 0xec: the flags after CPX.  t = X - m.
CPXFlags(f, t) ==
  LET carry(f1) == IF Ge(t, 0) THEN setBit(f1, 0) ELSE clearBit(f1, 0)
  IN  carry(setZN(f, t))

\* The opcodes of the cases that work on a memory operand (ADC: on the
\* operand byte as well).
ADCOpcodes == {105, 101, 117, 109, 125, 121, 97, 113}
LDAOpcodes == {165, 181, 173, 189, 185, 161, 177}
LDXOpcodes == {166, 182, 174, 190}
STAOpcodes == {133, 149, 141, 157, 153, 129, 145}
LSROpcodes == {74, 70, 86, 78, 94}
BITOpcodes == {36, 44}
CPXOpcodes == {228, 236}

AddressedOpcodes ==
  LDAOpcodes \cup LDXOpcodes \cup STAOpcodes
    \cup (LSROpcodes \ {74}) \cup BITOpcodes \cup CPXOpcodes

\* The cases of LDA, LDX, STA, LSR, BIT and CPX on a memory operand: the
\* address from the operand bytes, the byte b read there (STA reads none), the
\* operation, memory.PC += n.
Addressed(s, op) ==
  LET store(addr, v, f) ==
        [writeByte(s, v, addr) EXCEPT !.flags = f, !.PC = @ + Advance(op)]
      operate(addr, b) ==
        CASE op \in LDAOpcodes ->
               [s EXCEPT !.A = b, !.flags = setZN(@, b), !.PC = @ + Advance(op)]
          [] op \in LDXOpcodes ->
               [s EXCEPT !.X = b, !.flags = setZN(@, b), !.PC = @ + Advance(op)]
          [] op \in STAOpcodes -> store(addr, s.A, s.flags)
          [] op \in LSROpcodes -> store(addr, Shr1(b), LSRFlags(s.flags, b))
          [] op \in BITOpcodes ->
               [s EXCEPT !.flags = BITFlags(@, And(s.A, b)), !.PC = @ + Advance(op)]
          [] op \in CPXOpcodes ->
               [s EXCEPT !.flags = CPXFlags(@, Minus(s.X, b)), !.PC = @ + Advance(op)]
      fetch(addr) == operate(addr, read(s, addr))
  IN  fetch(EffectiveAddress(s, op))

\* memory.PC = memory.PC + 2 + (taken ? getTwosComplement(operand) : 0)
Branch(s, taken) ==
  [s EXCEPT !.PC = Plus(s.PC + 2,
                        IF taken THEN getTwosComplement(read(s, s.PC + 1)) ELSE 0)]

\* case 0x20: JSR
JSR(s) ==
  LET jump(s2) == [s2 EXCEPT !.PC = readWord(s2, s.PC + 1)]
  IN  jump(push(push(s, And(Shr8(s.PC + 2), 255)), And(s.PC + 2, 255)))

\* RTS without the increment of the pulled address.
RTSNoIncrement(s) ==
  LET high(s1, s2) == [s2 EXCEPT !.PC = Or(top(s1), Shl8(top(s2)))]
      low(s1) == high(s1, pull(s1))
  IN  low(pull(s))

\* case 0x60: RTS
RTS(s) ==
  LET high(s1, s2) == [s2 EXCEPT !.PC = Plus(Or(top(s1), Shl8(top(s2))), 1)]
      low(s1) == high(s1, pull(s1))
  IN  low(pull(s))

\* case 0x40: RTI
RTI(s) ==
  LET high(s1, s2, s3) ==
        [s3 EXCEPT !.flags = top(s1), !.PC = Or(top(s2), Shl8(top(s3)))]
      low(s1, s2) == high(s1, s2, pull(s2))
      status(s1) == low(s1, pull(s1))
  IN  status(pull(s))

\* PLA without P.setZN(MPU.A).
PLANoFlags(s) ==
  LET load(s1) == [s1 EXCEPT !.A = top(s1), !.PC = s.PC + 1]
  IN  load(pull(s))

\* case 0x68: PLA
PLA(s) ==
  LET load(s1) ==
        [s1 EXCEPT !.A = top(s1), !.flags = setZN(s.flags, top(s1)), !.PC = s.PC + 1]
  IN  load(pull(s))

\* CPX Immediate leaving the carry as it was.
CPXImmediateNoCarry(s) ==
  LET compare(t) == [s EXCEPT !.flags = setZN(s.flags, t), !.PC = @ + 2]
  IN  compare(Minus(s.X, read(s, s.PC + 1)))

\* case 0xe0: CPX Immediate
CPXImmediate(s) ==
  LET carry(t, f1) ==
        [s EXCEPT !.flags = IF Ge(t, 0) THEN setBit(f1, 0) ELSE clearBit(f1, 0),
                  !.PC = @ + 2]
      compare(t) == carry(t, setZN(s.flags, t))
  IN  compare(Minus(s.X, read(s, s.PC + 1)))

\* case 0x02: HLT
HLT(s) == [clearTimer(s, null) EXCEPT !.programExecuting = FALSE, !.ret = FALSE]

\* case 0xf7: WAI
WAI(s) == [clearTimer(s, timerFalse) EXCEPT !.ret = FALSE]

\* statusWindow.writeError("Encountered invalid instruction at $" + d2h(pc, 4)
\* + ": $" + d2h(byte) + "."): the line, by the two numbers it prints.
InvalidLine(pc, byte) ==
  [text |-> "Encountered invalid instruction at", num |-> 0, pc |-> pc, byte |-> byte]

\* default: an opcode without a case.  A hole of the array falls through to
\* `return true` with PC where it was.
InvalidInstruction(s) ==
  IF read(s, s.PC) # undefined
    THEN [clearTimer(s, null) EXCEPT
            !.programExecuting = FALSE,
            !.statusWindow = Append(@, InvalidLine(s.PC, read(s, s.PC))),
            !.ret = FALSE]
    ELSE s

\* The deferred part of brkInterrupt, run by the setTimeout callback (and inline
\* in debug mode): push PC and P, load PC from 0xFFFE/0xFFFF.
pushFrame(s) ==
  LET vector(s3) ==
        IF s3.threw THEN s3
        ELSE [s3 EXCEPT !.PC = Or(read(s3, 65534), Shl8(read(s3, 65535)))]
      status(s2) == vector(IF s2.threw THEN s2 ELSE push(s2, Or(s.flags, 16)))
      low(s1) == status(IF s1.threw THEN s1 ELSE push(s1, And(MemPC(s), 255)))
  IN  low(push(s, And(Shr8(MemPC(s)), 255)))

RECURSIVE executeInstruction(_)
RECURSIVE doInstruction(_, _)
RECURSIVE brkInterrupt(_)

\* case 0x00: BRK.  `memory = memory.PC + 2` makes the global a number.
BRK(s) ==
  LET return(s2) == IF s2.threw THEN s2 ELSE [s2 EXCEPT !.ret = FALSE]
  IN  return(brkInterrupt([s EXCEPT !.memory = [obj |-> FALSE, num |-> s.PC + 2]]))

Dispatch(s, op) ==
  CASE op = 74 -> LSRAccumulator(s)
    [] op \in ADCOpcodes -> ADC(s, read(s, EffectiveAddress(s, op)))
    [] op \in AddressedOpcodes -> Addressed(s, op)
    [] op = 144 -> Branch(s, ~FlagC(s.flags))                      \* BCC
    [] op = 176 -> Branch(s, FlagC(s.flags))                       \* BCS
    [] op = 240 -> Branch(s, FlagZ(s.flags))                       \* BEQ
    [] op = 48  -> Branch(s, FlagN(s.flags))                       \* BMI
    [] op = 208 -> Branch(s, ~FlagZ(s.flags))                      \* BNE
    [] op = 16  -> Branch(s, ~FlagN(s.flags))                      \* BPL
    [] op = 0   -> BRK(s)
    [] op = 80  -> Branch(s, ~FlagV(s.flags))                      \* BVC
    [] op = 112 -> Branch(s, FlagV(s.flags))                       \* BVS
    [] op = 24  -> [s EXCEPT !.flags = clearBit(@, 0), !.PC = @ + 1]   \* CLC
    [] op = 216 -> [s EXCEPT !.flags = clearBit(@, 3), !.PC = @ + 1]   \* CLD
    [] op = 88  -> [s EXCEPT !.flags = clearBit(@, 2), !.PC = @ + 1]   \* CLI
    [] op = 76  -> [s EXCEPT !.PC = readWord(s, s.PC + 1)]         \* JMP Absolute
    [] op = 108 -> [s EXCEPT !.PC = readWord(s, readWord(s, s.PC + 1))]  \* JMP Indirect
    [] op = 32  -> JSR(s)
    [] op = 169 -> [s EXCEPT !.A = read(s, s.PC + 1),              \* LDA Immediate
                             !.flags = setZN(@, read(s, s.PC + 1)),
                             !.PC = @ + 2]
    [] op = 234 -> [s EXCEPT !.PC = @ + 1]                         \* NOP
    [] op = 72  -> [push(s, s.A) EXCEPT !.PC = @ + 1]              \* PHA
    [] op = 8   -> [push(s, s.flags) EXCEPT !.PC = @ + 1]          \* PHP
    [] op = 104 -> PLA(s)
    [] op = 40  -> LET load(s1) == [s1 EXCEPT !.flags = top(s1), !.PC = @ + 1]
                   IN  load(pull(s))                               \* PLP
    [] op = 64  -> RTI(s)
    [] op \in {225, 229, 233, 237, 241, 245, 249, 253} -> SBC(s, op)
    [] op = 162 -> [s EXCEPT !.X = read(s, s.PC + 1),              \* LDX Immediate
                             !.flags = setZN(@, read(s, s.PC + 1)),
                             !.PC = @ + 2]
    [] op = 232 -> [s EXCEPT !.X = And(Plus(s.X, 1), 255),         \* INX
                             !.flags = setZN(@, And(Plus(s.X, 1), 255)),
                             !.PC = @ + 1]
    [] op = 224 -> CPXImmediate(s)
    [] op = 242 -> [s EXCEPT !.output = Append(@, s.A), !.PC = @ + 1]  \* OUT: the character of code A (13: a line break)
    [] op = 154 -> [s EXCEPT !.SP = s.X, !.PC = @ + 1]                 \* TXS
    [] op = 96  -> RTS(s)
    [] op = 56  -> [s EXCEPT !.flags = setBit(@, 0), !.PC = @ + 1]     \* SEC
    [] op = 248 -> [s EXCEPT !.flags = setBit(@, 3), !.PC = @ + 1]     \* SED
    [] op = 120 -> [s EXCEPT !.flags = setBit(@, 2), !.PC = @ + 1]     \* SEI
    [] op = 2   -> HLT(s)
    [] op = 247 -> WAI(s)
    [] OTHER    -> InvalidInstruction(s)

\* One call of executeInstruction: s.ret is its return value.  The random
\* register 0x00FE is written before the fetch.
executeInstruction(s) ==
  IF ~s.memory.obj THEN Throw(s)
  ELSE IF Ge(s.PC, size) THEN [s EXCEPT !.ret = FALSE]
  ELSE LET fetch(s1, op) ==
             Dispatch([s1 EXCEPT !.executed = Append(@, [pc |-> s1.PC, op |-> op]),
                                 !.ret = TRUE], op)
           random(s1) == fetch(s1, read(s1, s1.PC))
       IN  random(writeByte(s, s.rnd[Len(s.executed) + 1], 254))

\* doInstruction(n): up to t calls of executeInstruction, until one returns false.
doInstruction(s, t) ==
  IF t <= 0 THEN s
  ELSE LET loop(s1) == IF s1.threw \/ ~s1.ret THEN s1 ELSE doInstruction(s1, t - 1)
       IN  loop(executeInstruction(s))

brkInterrupt(s) ==
  LET step(s1) == IF s1.threw THEN s1 ELSE doInstruction(s1, 1)
      interrupt(s0) ==
        IF s0.debugOn THEN step(pushFrame(s0))
                      ELSE [s0 EXCEPT !.timeouts = @ + 1]
  IN  interrupt(clearTimer(s, null))

(***************************************************************************)
(* The programs in the input box, given by the memory image assembleProgram *)
(* builds from them.                                                       *)
(***************************************************************************)
Bytes(base, bs) == [a \in base..(base + Len(bs) - 1) |-> bs[a - base + 1]]

\* .ORG $0900  ISR: <handler>  .ORG $FFFE  .DW ISR
Handler(bs) == Bytes(2304, bs) @@ Bytes(65534, <<0, 9>>)

Sources == 1..6

Image(src) ==
  CASE src = 1 -> Bytes(2048, <<2>>)                              \* HLT
    [] src = 2 -> Bytes(2048, <<234, 2>>)                         \* NOP HLT
    [] src = 3 -> Bytes(2048, <<234>>)                            \* NOP
    [] src = 4 -> Bytes(2048, <<88, 247, 234, 2>>)                \* CLI WAI NOP HLT
                    @@ Handler(<<64>>)                            \*   ISR: RTI
    [] src = 5 -> Bytes(2048, <<88, 76, 1, 8>>)                   \* CLI L: JMP L
                    @@ Handler(<<64>>)                            \*   ISR: RTI
    [] src = 6 -> Bytes(2048, <<234, 0>>)                         \* NOP BRK
                    @@ Handler(<<2>>)                             \*   ISR: HLT

\* The emit pointer assembleProgram leaves in memory.PC.
EmitEnd(src) == IF src \in {4, 5, 6} THEN 65536 ELSE 2048 + Cardinality(DOMAIN Image(src))

Program(src) == [kind |-> "source", args |-> <<src>>]

(***************************************************************************)
(* The assembler.  The input box holds statements: a label definition, or  *)
(* a mnemonic or directive with its operand (a literal, or a label name    *)
(* with an optional low/high byte selector).                               *)
(***************************************************************************)
\* NOP            Implied("NOP")
\* LDA #$05       Operand("LDA", "immediate", 5)
\* STA $10        Operand("STA", "literal", 16)
\* JMP L, LDA <L  Ref("JMP", "label", "L"), Ref("LDA", "<", "L")
Implied(op) == [op |-> op, mode |-> "implied", v |-> 0, lab |-> ""]
Operand(op, mode, n) == [op |-> op, mode |-> mode, v |-> n, lab |-> ""]
Ref(op, mode, k) == [op |-> op, mode |-> mode, v |-> 0, lab |-> k]
Org(n) == Operand("ORG", "literal", n)
Label(k) == Ref("LABEL", "label", k)
\* DEFINE PTR $0200  Define("PTR", 512)
Define(k, n) == [op |-> "DEFINE", mode |-> "literal", v |-> n, lab |-> k]

\* `labels` and `constants` are plain objects: `k in labels` and
\* `k in constants` hold for the names every object inherits, and the value
\* found under such a name is a function.
ObjectPrototype ==
  {"constructor", "hasOwnProperty", "isPrototypeOf", "propertyIsEnumerable",
   "toLocaleString", "toString", "valueOf"}
InLabels(s, k) == k \in DOMAIN s.labels \/ k \in ObjectPrototype

\* throw new exceptions.<name>: the exception's num.
Raise(s, n) == [s EXCEPT !.num = n]
Failed(s) == s.threw \/ s.num # 0

\* memory.writeByte(v) and memory.writeWord(v): at memory.PC, which moves on.
emitByte(s, v) == [writeByte(s, v, s.PC) EXCEPT !.PC = s.PC + 1]
emitWord(s, v) ==
  [s EXCEPT !.mem = Store(Store(s.mem, s.PC, And(v, 255)), s.PC + 1, And(Shr8(v), 255)),
            !.PC = s.PC + 2]
\* The word stored high byte first.
writeWordBigEndian(s, v, addr) ==
  [s EXCEPT !.mem = Store(Store(s.mem, addr, And(Shr8(v), 255)), addr + 1, And(v, 255))]
\* memory.writeWord(v, addr)
writeWord(s, v, addr) ==
  [s EXCEPT !.mem = Store(Store(s.mem, addr, And(v, 255)), addr + 1, And(Shr8(v), 255))]

\* The opcodes the assembler's switch passes to writeInstruction (im, zp, zpx,
\* zpy, abs, abx, aby, inx, iny), to writeJumpInstruction (abs, ind), to
\* writeBranchInstruction and to memory.writeByte.
Slots(im, zp, zpx, zpy, abs, abx, aby, inx, iny) ==
  [im |-> im, zp |-> zp, zpx |-> zpx, zpy |-> zpy, abs |-> abs, abx |-> abx,
   aby |-> aby, inx |-> inx, iny |-> iny]
Opcodes(op) ==
  CASE op = "ADC" -> Slots(105, 101, 117, undefined, 109, 125, 121, 97, 113)
    [] op = "LDA" -> Slots(169, 165, 181, undefined, 173, 189, 185, 161, 177)
    [] op = "SBC" -> Slots(233, 229, 245, undefined, 237, 253, 249, 225, 241)
    [] op = "STA" -> Slots(undefined, 133, 149, undefined, 141, 157, 153, 129, 145)
    [] op = "LDX" -> Slots(162, 166, undefined, 182, 174, undefined, 190, undefined, undefined)
    [] op = "CPX" -> Slots(224, 228, undefined, undefined, 236, undefined, undefined,
                           undefined, undefined)
    [] op = "BIT" -> Slots(undefined, 36, undefined, undefined, 44, undefined, undefined,
                           undefined, undefined)
    [] op = "LSR" -> Slots(undefined, 70, 86, undefined, 78, 94, undefined, undefined,
                           undefined)
JumpOpcodes(op) ==
  CASE op = "JMP" -> [abs |-> 76, ind |-> 108]
    [] op = "JSR" -> [abs |-> 32, ind |-> undefined]
BranchOpcode(op) ==
  CASE op = "BCC" -> 144 [] op = "BCS" -> 176 [] op = "BEQ" -> 240
    [] op = "BMI" -> 48  [] op = "BNE" -> 208 [] op = "BPL" -> 16
    [] op = "BVC" -> 80  [] op = "BVS" -> 112
ImpliedOpcode(op) ==
  CASE op = "BRK" -> 0   [] op = "CLI" -> 88  [] op = "NOP" -> 234
    [] op = "PHA" -> 72  [] op = "PHP" -> 8   [] op = "PLA" -> 104
    [] op = "PLP" -> 40  [] op = "RTI" -> 64  [] op = "TXS" -> 154
    [] op = "HLT" -> 2   [] op = "WAI" -> 247 [] op = "CLC" -> 24
    [] op = "SED" -> 248 [] op = "INX" -> 232 [] op = "OUT" -> 242

\* getOperandType of a numeric operand written in `mode`: the addressing mode
\* it matches, "none" when it matches no pattern.
getOperandType(mode, v) ==
  CASE mode = "immediate" -> "im"
    [] mode = "indirect" -> "ind"
    [] mode = "indirect,X" -> IF v < 256 THEN "inx" ELSE "none"
    [] mode = "indirect,Y" -> IF v < 256 THEN "iny" ELSE "none"
    [] mode = "literal" -> IF v < 256 THEN "zp" ELSE "abs"
    [] mode = "literal,X" -> IF v < 256 THEN "zpx" ELSE "abx"
    [] mode = "literal,Y" -> IF v < 256 THEN "zpy" ELSE "aby"

\* writeInstruction(operand, im, zp, ..., abs, ...).  A label is typed as the
\* absolute address $2111, a label byte as the zero-page address $02.  An
\* inherited name is replaced by its function: as the whole operand, the next
\* string method is a TypeError; behind < or >, it has no operand type.  A
\* zero-page mode without a slot is taken as the absolute mode; a mode without
\* a slot is error #21, thrown before a byte is written.
writeInstruction(s, st) ==
  LET word(s1) == [emitByte(emitByte(s1, undefined), undefined) EXCEPT
                     !.labelTracker = s.labelTracker \o <<s1.PC, st.lab>>]
      byte(s1) == [emitByte(s1, undefined) EXCEPT
                     !.labelByteTracker = s.labelByteTracker \o <<s1.PC, <<st.mode, st.lab>> >>]
      emit(t, v) ==
        IF t = "none" THEN Raise(s, 4)
        ELSE IF t = "ind" THEN Raise(s, 21)
        ELSE IF Opcodes(st.op)[t] = undefined THEN Raise(s, 21)
        ELSE IF t \in {"abs", "abx", "aby"}
          THEN emitWord(emitByte(s, Opcodes(st.op)[t]), v)
        ELSE emitByte(emitByte(s, Opcodes(st.op)[t]), v)
      absolute(t, v) ==
        emit(IF t = "zp" /\ Opcodes(st.op).zp = undefined THEN "abs"
             ELSE IF t = "zpx" /\ Opcodes(st.op).zpx = undefined THEN "abx"
             ELSE IF t = "zpy" /\ Opcodes(st.op).zpy = undefined THEN "aby"
             ELSE t, v)
      literal(mode, v) == absolute(getOperandType(mode, v), v)
  IN  CASE st.mode = "label" ->
             IF st.lab \in ObjectPrototype THEN Throw(s)
             ELSE IF st.lab \in DOMAIN s.constants
               THEN literal("literal", s.constants[st.lab])
             ELSE word(emitByte(s, Opcodes(st.op).abs))
        [] st.mode \in {"<", ">"} ->
             IF st.lab \in ObjectPrototype THEN Raise(s, 4)
             ELSE byte(emitByte(s, Opcodes(st.op).zp))
        [] OTHER -> literal(st.mode, st.v)

\* writeBranchInstruction(br, operand, command)
writeBranchInstruction(s, st) ==
  LET track(s1) == [emitByte(s1, undefined) EXCEPT
                      !.branchTracker = s.branchTracker \o <<s1.PC, st.lab>>]
  IN  CASE st.mode = "label" ->
             IF st.lab \in ObjectPrototype THEN Throw(s)
             ELSE track(emitByte(s, BranchOpcode(st.op)))
        [] st.mode = "literal" ->
             IF st.v < 256 THEN emitByte(emitByte(s, BranchOpcode(st.op)), st.v)
             ELSE Raise(s, 21)

\* writeJumpInstruction(abs, ind, operand, command): the opcode is abs for a
\* zero-page or absolute operand and ind for an indirect one, whether or not
\* ind is defined; any other addressing mode is error #21.
writeJumpInstruction(s, st) ==
  LET track(s1) == [emitByte(emitByte(s1, undefined), undefined) EXCEPT
                      !.labelTracker = s.labelTracker \o <<s1.PC, st.lab>>]
      jump(t) ==
        IF t = "none" THEN Raise(s, 4)
        ELSE IF t = "ind" THEN emitWord(emitByte(s, JumpOpcodes(st.op).ind), st.v)
        ELSE IF t \in {"zp", "abs"}
          THEN emitWord(emitByte(s, JumpOpcodes(st.op).abs), st.v)
        ELSE Raise(s, 21)
  IN  CASE st.mode = "label" ->
             IF st.lab \in ObjectPrototype THEN Throw(s)
             ELSE track(emitByte(s, JumpOpcodes(st.op).abs))
        [] OTHER -> jump(getOperandType(st.mode, st.v))

\* .DW <operand>
writeData(s, st) ==
  LET track(s1) == [emitByte(emitByte(s1, undefined), undefined) EXCEPT
                      !.labelTracker = s.labelTracker \o <<s1.PC, st.lab>>]
  IN  CASE st.mode = "label" ->
             IF st.lab \in ObjectPrototype THEN Raise(s, 17) ELSE track(s)
        [] st.mode = "literal" -> emitWord(s, st.v)

\* The words that cannot name a label or a constant.  `reserved` is a plain
\* object too.
reserved ==
  { "ADC", "AND", "ASL", "BCC", "BCS", "BEQ", "BIT", "BMI", "BNE", "BPL", "BRK",
    "BVC", "BVS", "CLC", "CLD", "CLI", "CLV", "CMP", "CPX", "CPY", "DEC", "DEX",
    "DEY", "EOR", "INC", "INX", "INY", "JMP", "JSR", "LDA", "LDX", "LDY", "LSR",
    "NOP", "ORA", "PHA", "PHP", "PLA", "PLP", "ROL", "ROR", "RTI", "RTS", "SBC",
    "SEC", "SED", "SEI", "STA", "STX", "STY", "TAX", "TAY", "TSX", "TXA", "TXS",
    "TYA", "EQU", "ORG", "HLT", "OUT", "OUY", "IN", "WAI", "DEFINE", ".ORG",
    ".DB", ".DW" } \cup ObjectPrototype

\* k.toUpperCase(), for the names the programs use.
toUpperCase(k) ==
  CASE k = "lda" -> "LDA"
    [] k = "ptr" -> "PTR"
    [] k = "toString" -> "TOSTRING"
    [] OTHER -> k

\* addConstant(cons, val), for a literal val.
addConstant(s, cons, val) ==
  IF toUpperCase(cons) \in reserved THEN Raise(s, 5)
  ELSE IF cons \in ObjectPrototype THEN Raise(s, 5)
  ELSE IF cons \in DOMAIN s.constants THEN Raise(s, 6)
  ELSE [s EXCEPT !.constants = (cons :> val) @@ s.constants]

\* Step 2 of assembleProgram: the DEFINE directives, which it takes out of the
\* input; step 3 converts the rest.
RECURSIVE defineConstants(_, _, _)
defineConstants(s, inputarray, j) ==
  IF Failed(s) \/ j > Len(inputarray) THEN s
  ELSE defineConstants(IF inputarray[j].op = "DEFINE"
                         THEN addConstant(s, inputarray[j].lab, inputarray[j].v)
                         ELSE s,
                       inputarray, j + 1)
Converted(st) == st.op # "DEFINE"

\* The label definition without the look into the constants.
defineLabelNoConstants(s, st) ==
  IF toUpperCase(st.lab) \in reserved THEN Raise(s, 5)
  ELSE IF st.lab \in ObjectPrototype THEN Raise(s, 5)
  ELSE IF st.lab \in DOMAIN s.labels THEN Raise(s, 14)
  ELSE [s EXCEPT !.labels = (st.lab :> s.PC) @@ s.labels]

\* <name>:
defineLabel(s, st) ==
  IF toUpperCase(st.lab) \in reserved THEN Raise(s, 5)
  ELSE IF st.lab \in ObjectPrototype THEN Raise(s, 5)
  ELSE IF st.lab \in DOMAIN s.labels THEN Raise(s, 14)
  ELSE IF st.lab \in DOMAIN s.constants THEN Raise(s, 15)
  ELSE [s EXCEPT !.labels = (st.lab :> s.PC) @@ s.labels]

\* Step 3 of assembleProgram: one statement.
statement(s, st) ==
  CASE st.op = "ORG" -> [s EXCEPT !.PC = st.v]
    [] st.op = ".DW" -> writeData(s, st)
    [] st.op = "LABEL" -> defineLabel(s, st)
    [] st.op = "LSR" /\ st.mode = "accumulator" -> emitByte(s, 74)
    [] st.op \in {"ADC", "BIT", "CPX", "LDA", "LDX", "LSR", "SBC", "STA"} ->
         writeInstruction(s, st)
    [] st.op \in {"BCC", "BCS", "BEQ", "BMI", "BNE", "BPL", "BVC", "BVS"} ->
         writeBranchInstruction(s, st)
    [] st.op \in {"JMP", "JSR"} -> writeJumpInstruction(s, st)
    [] OTHER -> emitByte(s, ImpliedOpcode(st.op))

RECURSIVE statements(_, _, _)
statements(s, inputarray, j) ==
  IF Failed(s) \/ j > Len(inputarray) THEN s
  ELSE statements(statement(s, inputarray[j]), inputarray, j + 1)

\* The three loops that resolve the trackers.  The address of a label is
\* converted through its decimal string; the string of a function converts to
\* no value.
RECURSIVE resolveWords(_, _)
resolveWords(s, j) ==
  IF Failed(s) \/ j > Len(s.labelTracker) THEN s
  ELSE LET lab == s.labelTracker[j + 1]
       IN  IF ~InLabels(s, lab) THEN Raise(s, 1)
           ELSE IF lab \in ObjectPrototype THEN Raise(s, 17)
           ELSE resolveWords(writeWord(s, s.labels[lab], s.labelTracker[j]), j + 2)

RECURSIVE resolveBytes(_, _)
resolveBytes(s, j) ==
  IF Failed(s) \/ j > Len(s.labelByteTracker) THEN s
  ELSE LET hlb == s.labelByteTracker[j + 1][1]
           lab == s.labelByteTracker[j + 1][2]
       IN  IF ~InLabels(s, lab) THEN Raise(s, 1)
           ELSE IF lab \in ObjectPrototype THEN Raise(s, 17)
           ELSE resolveBytes(
                  writeByte(s, IF hlb = ">" THEN And(Shr8(s.labels[lab]), 255)
                                            ELSE And(s.labels[lab], 255),
                            s.labelByteTracker[j]), j + 2)

\* The branch displacement written for a distance in -128..127.
branchByte(distance) ==
  IF distance < 0 THEN Or(And(Not(0 - distance) + 1, 255), 128) ELSE distance

RECURSIVE resolveBranches(_, _)
resolveBranches(s, j) ==
  IF Failed(s) \/ j > Len(s.branchTracker) THEN s
  ELSE LET lab == s.branchTracker[j + 1]
           distance == s.labels[lab] - s.branchTracker[j] - 1
       IN  IF ~InLabels(s, lab) THEN Raise(s, 2)
           ELSE IF lab \in ObjectPrototype THEN Raise(s, 17)
           ELSE IF distance > 127 \/ distance < -128 THEN Raise(s, 3)
           ELSE resolveBranches(writeByte(s, branchByte(distance), s.branchTracker[j]),
                                j + 2)

\* The lines of the status window the assembler ends with.
ErrorLine(n) == [text |-> "Error #", num |-> n]
StatusLine(text) == [text |-> text, num |-> 0]

(***************************************************************************)
(* The programs typed into the input box.                                  *)
(***************************************************************************)
\* .ORG $0900  ISR: <handler>  .ORG $FFFE  .DW ISR
HandlerSource(handler) ==
  <<Org(2304), Label("ISR")>> \o handler \o <<Org(65534), Ref(".DW", "label", "ISR")>>

\* START: <op> L at base, L: HLT at the distance d from the byte after the
\* branch operand, and START as the reset vector.  L comes first when it lies
\* before the branch.
BranchSource(op, base, d) ==
  LET target == <<Org(base + 2 + d), Label("L"), Implied("HLT")>>
      branch == <<Org(base), Label("START"), Ref(op, "label", "L")>>
      vector == <<Org(65532), Ref(".DW", "label", "START")>>
  IN  IF d < 0 THEN target \o branch \o vector ELSE branch \o target \o vector

\* The programs of Sources.
Numbered(src) ==
  CASE src = 1 -> <<Implied("HLT")>>
    [] src = 2 -> <<Implied("NOP"), Implied("HLT")>>
    [] src = 3 -> <<Implied("NOP")>>
    [] src = 4 -> <<Implied("CLI"), Implied("WAI"), Implied("NOP"), Implied("HLT")>>
                    \o HandlerSource(<<Implied("RTI")>>)
    [] src = 5 -> <<Implied("CLI"), Label("L"), Ref("JMP", "label", "L")>>
                    \o HandlerSource(<<Implied("RTI")>>)
    [] src = 6 -> <<Implied("NOP"), Implied("BRK")>>
                    \o HandlerSource(<<Implied("HLT")>>)

\* The statements of the program in the input box.
Source(program) ==
  CASE program.kind = "source" -> Numbered(program.args[1])
    [] program.kind = "branch" ->
         BranchSource(program.args[1], program.args[2], program.args[3])
    [] program.kind = "reference" ->
         <<Implied("NOP"), program.args[1], Implied("HLT")>>
    [] program.kind = "statements" -> program.args[1]

(***************************************************************************)
(* The handlers                                                            *)
(***************************************************************************)
Cur(rnd) ==
  [A |-> A, X |-> X, Y |-> Y, SP |-> SP, PC |-> PC, flags |-> flags,
   mem |-> mem, memory |-> memory, instructionTimer |-> instructionTimer,
   programExecuting |-> programExecuting, debugOn |-> debugOn,
   timers |-> timers, timeouts |-> timeouts, irqCount |-> irqCount,
   labels |-> labels, constants |-> constants, labelTracker |-> labelTracker,
   labelByteTracker |-> labelByteTracker, branchTracker |-> branchTracker,
   statusWindow |-> statusWindow, assembleReturn |-> "no",
   executed |-> << >>, touched |-> {}, calls |-> << >>, output |-> output,
   rnd |-> rnd, ret |-> TRUE,
   threw |-> FALSE, num |-> 0]

Commit(s) ==
  /\ A' = s.A /\ X' = s.X /\ Y' = s.Y /\ SP' = s.SP /\ PC' = s.PC
  /\ flags' = s.flags /\ mem' = s.mem /\ memory' = s.memory
  /\ instructionTimer' = s.instructionTimer
  /\ programExecuting' = s.programExecuting /\ debugOn' = s.debugOn
  /\ timers' = s.timers /\ timeouts' = s.timeouts /\ irqCount' = s.irqCount
  /\ executed' = s.executed /\ stackTouched' = s.touched
  /\ deviceCalls' = s.calls /\ output' = s.output
  /\ labels' = s.labels /\ constants' = s.constants
  /\ labelTracker' = s.labelTracker
  /\ labelByteTracker' = s.labelByteTracker /\ branchTracker' = s.branchTracker
  /\ statusWindow' = s.statusWindow /\ assembleReturn' = s.assembleReturn

\* The history variable `ended` after a handler that left s: HLT ran in it, or e.
Ended(s, e) ==
  IF \E i \in DOMAIN s.executed : s.executed[i].op = 2 THEN "halt" ELSE e

\* The history variable `waiting` after a handler that left s: a WAI it ended
\* with suspends the program; an instruction it fetched outside the interrupt
\* handler at $0900 is the suspended program running on.
Waiting(s, w) ==
  IF s.executed # << >> /\ s.executed[Len(s.executed)].op = 247
    THEN << s.executed[Len(s.executed)].pc >>
  ELSE IF \E i \in DOMAIN s.executed : s.executed[i].pc < 2304 THEN << >>
  ELSE w

\* Math.floor(Math.random() * 255) is any of 0..254: its two ends.
RandomBytes == {0, 254}
Random1 == [1..1 -> RandomBytes]

\* The bytes drawn by the t instructions of one tick.  No program of Sources
\* reads $00FE, so only the last byte drawn is observable: the t bytes are
\* taken equal.
RandomN(t) == { [i \in 1..t |-> r] : r \in RandomBytes }

\* assembleProgram(): s.ret is its return value.  memory.reset() on a number is
\* a TypeError; the catch block reports an exception that has a num and returns
\* false, and throws any other again.
assembleProgram(s, program) ==
  LET return(s3) ==
        IF s3.threw
          THEN [s3 EXCEPT !.statusWindow = Append(@, StatusLine("Could not assemble code.")),
                          !.assembleReturn = "throw"]
        ELSE IF s3.num # 0
          THEN [s3 EXCEPT !.statusWindow = @ \o <<ErrorLine(s3.num), StatusLine("Could not assemble code.")>>,
                          !.num = 0, !.ret = FALSE, !.assembleReturn = "false"]
        ELSE [s3 EXCEPT !.statusWindow = Append(@, StatusLine("Code assembled successfully")),
                        !.ret = TRUE, !.assembleReturn = "true"]
      resolve(s2) == return(resolveBranches(resolveBytes(resolveWords(s2, 1), 1), 1))
      convert(s1) == resolve(statements(s1, SelectSeq(Source(program), Converted), 1))
      define(s1) == convert(defineConstants(s1, Source(program), 1))
      reset(s0) ==
        IF ~s0.memory.obj
          THEN return(Throw([s0 EXCEPT !.labels = << >>, !.constants = << >>]))
        ELSE define([s0 EXCEPT !.labels = << >>, !.constants = << >>,
                                !.mem = << >>, !.PC = 2048,
                                !.labelTracker = << >>, !.labelByteTracker = << >>,
                                !.branchTracker = << >>])
  IN  reset([clearTimer(s, null) EXCEPT !.programExecuting = FALSE])

RECURSIVE writeZeros(_, _)
writeZeros(s, addrs) ==
  IF addrs = << >> THEN s
  ELSE writeZeros(writeByte(s, 0, Head(addrs)), Tail(addrs))

\* The reset sequence of execute() without the read of the reset vector.
resetMachineNoVector(s) ==
  LET reset(s1) ==
        [s1 EXCEPT !.SP = 255, !.flags = 36, !.A = 0, !.X = 0, !.Y = 0, !.PC = 2048]
      clear(s0) == [s0 EXCEPT !.calls = Append(@, <<"clear">>), !.output = << >>]
  IN  reset(writeZeros(clear(clearTimer(s, null)),
                       <<1760, 1761, 1762, 1763, 1764, 1765, 1776, 1777, 1778>>))

\* The reset sequence of execute().
resetMachine(s) ==
  LET reset(s1, resetHandler) ==
        [s1 EXCEPT !.SP = 255, !.flags = 36, !.A = 0, !.X = 0, !.Y = 0,
                   !.PC = IF resetHandler > 0 THEN resetHandler ELSE 2048]
      vector(s1) == reset(s1, readWord(s1, 65532))
      clear(s0) == [s0 EXCEPT !.calls = Append(@, <<"clear">>), !.output = << >>]
  IN  vector(writeZeros(clear(clearTimer(s, null)),
                        <<1760, 1761, 1762, 1763, 1764, 1765, 1776, 1777, 1778>>))

\* execute() past its first line: assemble, reset, then start the step timer or,
\* in debug mode, run one step; programExecuting = true comes last.
startProgram(s, program) ==
  LET executing(s3) == IF s3.threw THEN s3 ELSE [s3 EXCEPT !.programExecuting = TRUE]
      start(s2) == executing(IF s2.debugOn THEN doInstruction(s2, 1) ELSE setTimer(s2))
      assembled(s1) == IF s1.threw \/ ~s1.ret THEN s1 ELSE start(resetMachine(s1))
  IN  assembled(assembleProgram([s EXCEPT !.statusWindow = << >>], program))

\* execute() in debug mode with a program executing: one step.
SingleStep ==
  /\ debugOn /\ programExecuting
  /\ \E rnd \in Random1 :
       \E s \in {doInstruction(Cur(rnd), 1)} :
         Commit(s) /\ ended' = Ended(s, "no") /\ waiting' = Waiting(s, waiting)
  /\ checked' = FALSE
  /\ UNCHANGED inputbox

\* execute() otherwise, with one of `programs` typed into the input box.
StartProgramOf(programs) ==
  /\ ~(debugOn /\ programExecuting)
  /\ Cardinality(timers \ {instructionTimer}) < MaxTimers
  /\ \E program \in programs, rnd \in Random1 :
       \E s \in {[startProgram(Cur(rnd), program) EXCEPT !.irqCount = 0]} :
         /\ Commit(s) /\ ended' = Ended(s, "no") /\ waiting' = Waiting(s, << >>)
         /\ inputbox' = program
  /\ checked' = FALSE

StartProgram == StartProgramOf({Program(src) : src \in Sources})

Execute == SingleStep \/ StartProgram

\* A tick of a live setInterval timer: doInstruction().
TimerTick ==
  /\ timers # {}
  /\ \E t \in 1..MaxIterations :
       \E rnd \in RandomN(t) :
         \E s \in {doInstruction(Cur(rnd), t)} :
           Commit(s) /\ ended' = Ended(s, ended) /\ waiting' = Waiting(s, waiting)
  /\ checked' = FALSE
  /\ UNCHANGED inputbox

\* The callback brkInterrupt queued with setTimeout(..., 0).
TimeoutFire ==
  /\ timeouts > 0
  /\ Cardinality(timers) < MaxTimers
  /\ \E s1 \in {pushFrame([Cur(<< >>) EXCEPT !.timeouts = @ - 1])} :
       Commit(IF s1.threw THEN s1 ELSE setTimer(s1))
  /\ checked' = FALSE
  /\ UNCHANGED << inputbox, ended, waiting >>

\* pauseProgram()
PauseProgram ==
  /\ Commit(IF programExecuting
              THEN [clearTimer(Cur(<< >>), null) EXCEPT !.debugOn = TRUE]
              ELSE Cur(<< >>))
  /\ checked' = FALSE
  /\ UNCHANGED << inputbox, ended, waiting >>

\* The keys of window.onkeydown that write a cell: <<value, address>>, or << >>.
ShiftTable ==
  (48 :> 41) @@ (49 :> 33) @@ (50 :> 64) @@ (51 :> 35) @@ (52 :> 36) @@
  (53 :> 37) @@ (54 :> 94) @@ (55 :> 38) @@ (56 :> 42) @@ (57 :> 40) @@
  (186 :> 58) @@ (219 :> 123) @@ (220 :> 124) @@ (221 :> 125) @@ (222 :> 34) @@
  (189 :> 95) @@ (187 :> 43) @@ (188 :> 60) @@ (190 :> 62) @@ (191 :> 63) @@
  (192 :> 126)
PlainTable ==
  (186 :> 59) @@ (219 :> 91) @@ (220 :> 92) @@ (221 :> 93) @@ (222 :> 39) @@
  (189 :> 45) @@ (187 :> 61) @@ (188 :> 44) @@ (190 :> 46) @@ (191 :> 47) @@
  (192 :> 96)
keyCell(keyCode, shiftKey) ==
  IF keyCode \in 37..40 THEN <<1, 1760 + (keyCode - 37)>>
  ELSE IF shiftKey /\ keyCode \in DOMAIN ShiftTable THEN <<ShiftTable[keyCode], 1764>>
  ELSE IF keyCode \in DOMAIN PlainTable THEN <<PlainTable[keyCode], 1764>>
  ELSE IF keyCode \in 65..90 /\ ~shiftKey THEN <<keyCode + 32, 1764>>
  ELSE IF keyCode \in 65..90 \/ keyCode \in {32, 9} \/ keyCode \in 48..57
         THEN <<keyCode, 1764>>
  ELSE IF keyCode = 13 THEN <<1, 1765>>
  ELSE << >>

\* memory.writeByte(v, addr) called by an input handler.
hostWrite(s, v, addr) == IF ~s.memory.obj THEN Throw(s) ELSE writeByte(s, v, addr)

\* window.onkeydown
onkeydown(s, keyCode, shiftKey, maskable) ==
  IF keyCode = 27
    THEN IF s.programExecuting
           THEN [clearTimer(s, null) EXCEPT !.programExecuting = FALSE]
           ELSE s
  ELSE IF ~s.programExecuting THEN s
  ELSE IF maskable
    THEN IF ~FlagI(s.flags)
           THEN LET interrupt(s1) ==
                      IF s1.threw THEN s1
                      ELSE brkInterrupt([s1 EXCEPT !.irqCount = @ + 1])
                IN  interrupt(hostWrite(s, keyCode, 1760))
           ELSE s
  ELSE IF keyCell(keyCode, shiftKey) = << >> THEN s
  ELSE hostWrite(s, keyCell(keyCode, shiftKey)[1], keyCell(keyCode, shiftKey)[2])

\* The mouse cells a press writes with the interrupt toggle off.
RECURSIVE writeButtons(_, _, _)
writeButtons(s, buttons, n) ==
  IF n > 2 \/ s.threw THEN s
  ELSE writeButtons(IF And(buttons, 2 ^ n) # 0 THEN hostWrite(s, 1, 1776 + n) ELSE s,
                    buttons, n + 1)

\* The handler without its first line, the test of programExecuting.
onmousedownAnytime(s, buttons, maskable) ==
  IF maskable
    THEN IF ~FlagI(s.flags)
           THEN LET interrupt(s1) ==
                      IF s1.threw THEN s1
                      ELSE brkInterrupt([s1 EXCEPT !.irqCount = @ + 1])
                IN  interrupt(hostWrite(s, buttons, 1776))
           ELSE s
  ELSE writeButtons(s, buttons, 0)

\* window.onmousedown
onmousedown(s, buttons, maskable) ==
  IF ~s.programExecuting THEN s
  ELSE IF maskable
    THEN IF ~FlagI(s.flags)
           THEN LET interrupt(s1) ==
                      IF s1.threw THEN s1
                      ELSE brkInterrupt([s1 EXCEPT !.irqCount = @ + 1])
                IN  interrupt(hostWrite(s, buttons, 1776))
           ELSE s
  ELSE writeButtons(s, buttons, 0)

KeyEvents == { <<27, FALSE>>, <<37, FALSE>> }
ButtonEvents == { 1 }

\* An event would dispatch an interrupt.
Dispatches(maskable) ==
  programExecuting /\ maskable /\ ~FlagI(flags) /\ memory.obj

\* The values of an interrupt checkbox a handler may find: it reads the
\* checkbox only with a program executing (and not for Escape).
Checkbox(reads) == IF reads THEN BOOLEAN ELSE {FALSE}

\* The random byte of the instruction an input handler may run: it runs one
\* only from brkInterrupt in debug mode.
RandomInput == IF debugOn THEN Random1 ELSE {<<0>>}

\* A key of `events` goes down.
KeyDownOf(events) ==
  /\ \E ev \in events, rnd \in RandomInput :
       \E keymaskableinterrupt \in Checkbox(programExecuting /\ ev[1] # 27) :
         /\ (ev[1] # 27 /\ Dispatches(keymaskableinterrupt))
              => (irqCount < MaxIrq /\ timeouts < MaxTimeouts)
         /\ \E s \in {onkeydown(Cur(rnd), ev[1], ev[2], keymaskableinterrupt)} :
              /\ Commit(s)
              /\ ended' = Ended(s, IF ev[1] = 27 /\ programExecuting
                                     THEN "stop" ELSE ended)
              /\ waiting' = Waiting(s, waiting)
         /\ checked' = keymaskableinterrupt
  /\ UNCHANGED inputbox

KeyDown == KeyDownOf(KeyEvents)

\* A mouse button combination of `events` goes down.
MouseDownOf(events) ==
  /\ \E buttons \in events, rnd \in RandomInput :
       \E mousemaskableinterrupt \in Checkbox(programExecuting) :
         /\ Dispatches(mousemaskableinterrupt)
              => (irqCount < MaxIrq /\ timeouts < MaxTimeouts)
         /\ \E s \in {onmousedown(Cur(rnd), buttons, mousemaskableinterrupt)} :
              Commit(s) /\ ended' = Ended(s, ended) /\ waiting' = Waiting(s, waiting)
         /\ checked' = mousemaskableinterrupt
  /\ UNCHANGED inputbox

MouseDown == MouseDownOf(ButtonEvents)

(***************************************************************************)
(* The simulator: the page as loaded, then any sequence of host events.    *)
(***************************************************************************)
Init ==
  /\ A = 0 /\ X = 0 /\ Y = 0 /\ SP = 255 /\ PC = 2048 /\ flags = 36
  /\ mem = << >>
  /\ memory = [obj |-> TRUE, num |-> 0]
  /\ instructionTimer = null
  /\ programExecuting = FALSE
  /\ debugOn = FALSE
  /\ timers = {}
  /\ timeouts = 0
  /\ checked = FALSE
  /\ inputbox = [kind |-> "empty", args |-> << >>]
  /\ executed = << >>
  /\ ended = "no"
  /\ irqCount = 0
  /\ stackTouched = {}
  /\ deviceCalls = << >>
  /\ output = << >>
  /\ waiting = << >>
  /\ labels = << >>
  /\ constants = << >>
  /\ labelTracker = << >>
  /\ labelByteTracker = << >>
  /\ branchTracker = << >>
  /\ statusWindow = << >>
  /\ assembleReturn = "no"

Next ==
  \/ Execute
  \/ TimerTick
  \/ TimeoutFire
  \/ PauseProgram
  \/ KeyDown
  \/ MouseDown

Spec == Init /\ [][Next]_vars

(***************************************************************************)
(* The assembler at work: the page as loaded, programs with label          *)
(* references typed into the input box and run by the step timer.          *)
(***************************************************************************)
BranchMnemonics == {"BCC", "BEQ", "BMI", "BNE"}
BranchBases == {2048, 1711, 1712}
BranchDistances == {-129, -128, -2, -1, 0, 1, 127, 128}
References ==
  { Ref(r[1], r[2], k) :
      r \in { <<"JMP", "label">>, <<"BNE", "label">>, <<".DW", "label">>,
              <<"LDA", "label">>, <<"LDA", "<">>, <<"LDA", ">">> },
      k \in {"LATER", "toString"} }

AssemblyPrograms ==
  { [kind |-> "branch", args |-> <<op, base, d>>] :
      op \in BranchMnemonics, base \in BranchBases, d \in BranchDistances }
  \cup { [kind |-> "reference", args |-> <<st>>] : st \in References }

NextAssemble ==
  \/ StartProgramOf(AssemblyPrograms)
  \/ TimerTick

SpecAssemble == Init /\ [][NextAssemble]_vars

(***************************************************************************)
(* Starting and restarting: the programs of Sources and programs that      *)
(* change the registers, with and without a reset vector, started again    *)
(* while they run or after they halt, with the step timer or in debug mode. *)
(***************************************************************************)
\* ORG $8000 / LDA #$05 / ADC #$03 / STA $10 / BRK / ORG $FFFC / .DW $8000
Scenario1 ==
  [kind |-> "statements",
   args |-> << <<Org(32768), Operand("LDA", "immediate", 5),
                 Operand("ADC", "immediate", 3), Operand("STA", "literal", 16),
                 Implied("BRK"), Org(65532), Operand(".DW", "literal", 32768)>> >>]

\* LDA #$05 / PHA / HLT at the default origin, and at $0900 as the reset handler.
StartPrograms ==
  { Scenario1,
    [kind |-> "statements",
     args |-> << <<Operand("LDA", "immediate", 5), Implied("PHA"), Implied("HLT")>> >>],
    [kind |-> "statements",
     args |-> << <<Org(2304), Operand("LDA", "immediate", 5), Implied("PHA"),
                   Implied("HLT"), Org(65532), Operand(".DW", "literal", 2304)>> >>] }

NextStart ==
  \/ StartProgramOf(StartPrograms \cup {Program(src) : src \in Sources})
  \/ SingleStep
  \/ TimerTick
  \/ TimeoutFire
  \/ PauseProgram
  \/ KeyDown
  \/ MouseDown

SpecStart == Init /\ [][NextStart]_vars

(***************************************************************************)
(* The scenarios: each source assembled and run, by the step timer or      *)
(* single-stepped in debug mode, paused and started again at any time.     *)
(***************************************************************************)
Scenario(n) ==
  [kind |-> "statements",
   args |-> << CASE n = 2 ->    \* LDX #$00 / LOOP: INX / CPX #$05 / BNE LOOP / BRK
                      <<Operand("LDX", "immediate", 0), Label("LOOP"), Implied("INX"),
                        Operand("CPX", "immediate", 5), Ref("BNE", "label", "LOOP"),
                        Implied("BRK")>>
                 [] n = 3 ->    \* LDA #$99 / SED / CLC / ADC #$01 / BRK
                      <<Operand("LDA", "immediate", 153), Implied("SED"), Implied("CLC"),
                        Operand("ADC", "immediate", 1), Implied("BRK")>>
                 [] n = 4 ->    \* DEFINE PTR $0200 / LDA #$FF / STA PTR / BRK
                      <<Define("PTR", 512), Operand("LDA", "immediate", 255),
                        Ref("STA", "label", "PTR"), Implied("BRK")>>
                 [] n = 5 ->    \* .ORG $FFFC / .DW START / .ORG $8000 / START: LDA #$41 / OUT / HLT
                      <<Org(65532), Ref(".DW", "label", "START"), Org(32768),
                        Label("START"), Operand("LDA", "immediate", 65),
                        Implied("OUT"), Implied("HLT")>> >>]

Scenarios == {2, 3, 5}

NextScenarios ==
  \/ StartProgramOf({Scenario(n) : n \in Scenarios})
  \/ SingleStep
  \/ TimerTick
  \/ TimeoutFire
  \/ PauseProgram

SpecScenarios == Init /\ [][NextScenarios]_vars

(***************************************************************************)
(* Input: a program that clears I, pushes its status, sets I again and     *)
(* loops, with RTI as its interrupt handler, while keys and mouse buttons   *)
(* go down with the interrupt checkboxes on or off.                        *)
(***************************************************************************)
\* PHP / CLI / PHP / PLA / PLP / L: JMP L / .ORG $0900 / ISR: RTI / .ORG $FFFE / .DW ISR
InputProgram ==
  [kind |-> "statements",
   args |-> << <<Implied("PHP"), Implied("CLI"), Implied("PHP"), Implied("PLA"),
                 Implied("PLP"), Label("L"), Ref("JMP", "label", "L")>>
               \o HandlerSource(<<Implied("RTI")>>) >>]

NextInput ==
  \/ StartProgramOf({InputProgram})
  \/ SingleStep
  \/ TimerTick
  \/ TimeoutFire
  \/ PauseProgram
  \/ KeyDown
  \/ MouseDown

SpecInput == Init /\ [][NextInput]_vars

(***************************************************************************)
(* The keyboard: a program that loops with I set, while keys go down with  *)
(* the interrupt checkbox on or off.                                       *)
(***************************************************************************)
\* L: JMP L
KeysProgram ==
  [kind |-> "statements", args |-> << <<Label("L"), Ref("JMP", "label", "L")>> >>]

\* Escape, the arrows, Enter, a letter with and without shift, a shifted
\* digit and the shift key itself.
InputKeys ==
  { <<27, FALSE>>, <<37, FALSE>>, <<38, FALSE>>, <<39, FALSE>>, <<40, FALSE>>,
    <<13, FALSE>>, <<65, FALSE>>, <<65, TRUE>>, <<49, TRUE>>, <<16, TRUE>> }

NextKeys ==
  \/ StartProgramOf({KeysProgram})
  \/ TimerTick
  \/ PauseProgram
  \/ KeyDownOf(InputKeys)

SpecKeys == Init /\ [][NextKeys]_vars

(***************************************************************************)
(* Bytes that are no instruction: a data word in the path of the program,  *)
(* as its first instruction or after one that loads A.                     *)
(***************************************************************************)
\* .DW $0003, and LDA #$05 / .DW $0003 with START as the reset vector
InvalidPrograms ==
  { [kind |-> "statements", args |-> << <<Operand(".DW", "literal", 3)>> >>],
    [kind |-> "statements",
     args |-> << <<Org(32768), Label("START"), Operand("LDA", "immediate", 5),
                   Operand(".DW", "literal", 3), Org(65532),
                   Ref(".DW", "label", "START")>> >>] }

NextInvalid ==
  \/ StartProgramOf(InvalidPrograms)
  \/ SingleStep
  \/ TimerTick
  \/ PauseProgram
  \/ KeyDown
  \/ MouseDown

SpecInvalid == Init /\ [][NextInvalid]_vars

(***************************************************************************)
(* The memory-mapped devices: programs that store to the screen cells, to  *)
(* the clear and beep triggers and next to them, and data words assembled  *)
(* over those cells.                                                       *)
(***************************************************************************)
DevicePrograms ==
  { Scenario(4),
    \* LDA #$05 / STA $06B0 / STA $06B1 / LDA #$00 / STA $06B0 / STA $06B1 / HLT
    [kind |-> "statements",
     args |-> << <<Operand("LDA", "immediate", 5), Operand("STA", "literal", 1712),
                   Operand("STA", "literal", 1713), Operand("LDA", "immediate", 0),
                   Operand("STA", "literal", 1712), Operand("STA", "literal", 1713),
                   Implied("HLT")>> >>],
    \* LDA #$07 / STA $0227 / STA $06AF / STA $01FF / STA $06B2 / HLT
    [kind |-> "statements",
     args |-> << <<Operand("LDA", "immediate", 7), Operand("STA", "literal", 551),
                   Operand("STA", "literal", 1711), Operand("STA", "literal", 511),
                   Operand("STA", "literal", 1714), Implied("HLT")>> >>],
    \* .ORG $06AF / .DW $0101 / .ORG $0800 / NOP / HLT
    [kind |-> "statements",
     args |-> << <<Org(1711), Operand(".DW", "literal", 257), Org(2048),
                   Implied("NOP"), Implied("HLT")>> >>] }

NextDevices ==
  \/ StartProgramOf(DevicePrograms)
  \/ SingleStep
  \/ TimerTick
  \/ TimeoutFire
  \/ PauseProgram

SpecDevices == Init /\ [][NextDevices]_vars

(***************************************************************************)
(* Addressing modes: one instruction, in every way its operand can be      *)
(* written, followed by NEXT: HLT.                                         *)
(***************************************************************************)
OperandMnemonics == {"ADC", "SBC", "LDA", "LDX", "STA", "CPX", "BIT", "LSR", "JMP", "JSR"}
OperandModes ==
  {"immediate", "literal", "literal,X", "literal,Y", "indirect", "indirect,X",
   "indirect,Y"}
\* $10 and $0310: a zero-page and an absolute operand.
OperandValues == {16, 784}
ImpliedMnemonics == {"NOP", "CLC", "SED", "INX", "PHA", "PHP", "CLI", "OUT", "TXS"}

ModeStatements ==
  { Operand(op, mode, v) : op \in OperandMnemonics, mode \in OperandModes,
                           v \in OperandValues }
    \cup { Implied(op) : op \in ImpliedMnemonics }
    \cup { Operand("LSR", "accumulator", 0) }

ModePrograms ==
  { [kind |-> "statements", args |-> << <<st, Label("NEXT"), Implied("HLT")>> >>] :
      st \in ModeStatements }

NextModes ==
  \/ StartProgramOf(ModePrograms)
  \/ SingleStep
  \/ TimerTick
  \/ PauseProgram

SpecModes == Init /\ [][NextModes]_vars

(***************************************************************************)
(* Input events: keys and mouse buttons going down while the looping       *)
(* program runs, is paused or has been stopped.                            *)
(***************************************************************************)
\* The left, the right and the middle button (1, 2, 4), two at once, none.
InputButtons == {0, 1, 2, 4, 3}

NextEvents ==
  \/ StartProgramOf({KeysProgram})
  \/ TimerTick
  \/ PauseProgram
  \/ KeyDownOf(InputKeys)
  \/ MouseDownOf(InputButtons)

SpecEvents == Init /\ [][NextEvents]_vars

(***************************************************************************)
(* Names: programs of up to MaxDefs DEFINE directives and label            *)
(* definitions, in any order, of a name and of a mnemonic in lower case.   *)
(***************************************************************************)
Names == {"PTR", "lda"}
NameStatements == {Define(k, 1) : k \in Names} \cup {Label(k) : k \in Names}

\* <definitions> / HLT
NamePrograms ==
  { [kind |-> "statements", args |-> << sts \o <<Implied("HLT")>> >>] :
      sts \in UNION { [1..n -> NameStatements] : n \in 1..MaxDefs } }

NextNames ==
  \/ StartProgramOf(NamePrograms)
  \/ TimerTick
  \/ SingleStep
  \/ PauseProgram

SpecNames == Init /\ [][NextNames]_vars

(***************************************************************************)
(* The interpreter alone: a program in memory, the machine in debug mode   *)
(* with the program executing, and the host single-stepping it.  inputbox  *)
(* keeps the parameters the program was written from.                      *)
(***************************************************************************)
Loaded(kind, args, image, a, sp, pc, f) ==
  /\ A = a /\ X = 0 /\ Y = 0 /\ SP = sp /\ PC = pc /\ flags = f
  /\ mem = image
  /\ memory = [obj |-> TRUE, num |-> 0]
  /\ instructionTimer = null
  /\ programExecuting = TRUE
  /\ debugOn = TRUE
  /\ timers = {}
  /\ timeouts = 0
  /\ checked = FALSE
  /\ inputbox = [kind |-> kind, args |-> args]
  /\ executed = << >>
  /\ ended = "no"
  /\ irqCount = 0
  /\ stackTouched = {}
  /\ deviceCalls = << >>
  /\ output = << >>
  /\ waiting = << >>
  /\ labels = << >>
  /\ constants = << >>
  /\ labelTracker = << >>
  /\ labelByteTracker = << >>
  /\ branchTracker = << >>
  /\ statusWindow = << >>
  /\ assembleReturn = "no"

\* JSR $0900 at p with SP = s; the subroutine at $0900 is one of Subroutines.
JSRAt == {2048, 4096, 65533}
StackPointers == {255, 128, 2, 1, 0}
Subroutines ==
  { <<96>>,                  \* RTS
    <<234, 96>>,             \* NOP RTS
    <<72, 104, 96>>,         \* PHA PLA RTS
    <<104, 96>> }            \* PLA RTS: reaches RTS with SP off by one

InitJSR ==
  \E p \in JSRAt, s \in StackPointers, body \in Subroutines :
    Loaded("jsr", <<p, s>>, Bytes(p, <<32, 0, 9>>) @@ Bytes(2304, body),
           0, s, p, 36)

SpecJSR == InitJSR /\ [][SingleStep]_vars

\* LDA #v PHA for each v of vals, then as many PLA, at $0800 with SP = s.
PushValues == {0, 1, 128, 255}

Pushes(vals) ==
  [i \in 1..(3 * Len(vals)) |->
     CASE i % 3 = 1 -> 169 [] i % 3 = 2 -> vals[(i + 1) \div 3] [] OTHER -> 72]

Pulls(n) == [i \in 1..n |-> 104]

DistinctValues ==
  { vals \in UNION { [1..n -> PushValues] : n \in 1..MaxPush } :
      \A i, j \in DOMAIN vals : i # j => vals[i] # vals[j] }

\* A value for every cell of the stack page 0x0100..0x01FF.
FullPage == [i \in 1..256 |-> 256 - i]

InitStack ==
  \E vals \in DistinctValues \cup {FullPage}, s \in StackPointers :
    Loaded("stack", <<vals, s>>, Bytes(2048, Pushes(vals) \o Pulls(Len(vals))),
           0, s, 2048, 36)

SpecStack == InitStack /\ [][SingleStep]_vars

\* Every sequence of at most MaxOps stack instructions (PHA, PHP, PLA, PLP,
\* TXS), from both ends of the stack page.
MaxOps == 3

StackOpcodes == {72, 8, 104, 40, 154}

StackPrograms == UNION { [1..n -> StackOpcodes] : n \in 1..MaxOps }

InitStackOps ==
  \E ops \in StackPrograms, a \in {0, 200}, s \in {255, 0} :
    Loaded("stack ops", <<ops>>, Bytes(2048, ops), a, s, 2048, 36)

SpecStackOps == InitStackOps /\ [][SingleStep]_vars

\* One SBC instruction at $0800 in each addressing mode, its operand bytes
\* naming cell $10 or $11, from A = a with C and D set or clear.
SBCOpcodes == {233, 229, 245, 237, 253, 249, 225, 241}

InitSBC ==
  \E op \in SBCOpcodes, v \in {16, 17}, m \in {0, 1, 5, 255},
     a \in {0, 5, 128}, f \in {36, 37, 44, 45} :
    Loaded("sbc", <<op, v, m>>, Bytes(2048, <<op, v, 0>>) @@ Bytes(16, <<m, 0>>),
           a, 255, 2048, f)

SpecSBC == InitSBC /\ [][SingleStep]_vars

\* SBC #v at $0800 in binary mode, for every operand byte and carry, from the
\* values of A at the ends and in the middle of the byte range.
SBCAccumulators == {0, 1, 127, 128, 255}

InitSBCBinary ==
  \E v \in 0..255, a \in SBCAccumulators, f \in {36, 37} :
    Loaded("sbc", <<233, v>>, Bytes(2048, <<233, v>>), a, 255, 2048, f)

SpecSBCBinary == InitSBCBinary /\ [][SingleStep]_vars

\* One LSR instruction at $0800 in each addressing mode, on the byte b: in A
\* and in cell $10, which the operand bytes name.
InitLSR ==
  \E op \in LSROpcodes, b \in 0..255, f \in {36, 167} :
    Loaded("lsr", <<op, b>>, Bytes(2048, <<op, 16, 0>>) @@ Bytes(16, <<b>>),
           b, 255, 2048, f)

SpecLSR == InitLSR /\ [][SingleStep]_vars

\* One BIT instruction at $0800 in each addressing mode, on the byte m in
\* cell $10, with A = a.
BITValues == {0, 1, 63, 64, 65, 127, 128, 191, 192, 255}

InitBIT ==
  \E op \in BITOpcodes, m \in BITValues, a \in BITValues, f \in {36, 231} :
    Loaded("bit", <<op, m>>, Bytes(2048, <<op, 16, 0>>) @@ Bytes(16, <<m>>),
           a, 255, 2048, f)

SpecBIT == InitBIT /\ [][SingleStep]_vars

\* One branch instruction with operand d at p, under every value of P.
BranchOpcodes == {144, 176, 240, 208, 48, 16, 80, 112}
BranchOperands == {0, 1, 127, 128, 255}
BranchAt == {2048, 64, 253}

InitBranch ==
  \E op \in BranchOpcodes, d \in BranchOperands, p \in BranchAt, f \in 0..255 :
    Loaded("branch", <<op, d, p>>, Bytes(p, <<op, d>>), 0, 255, p, f)

SpecBranch == InitBranch /\ [][SingleStep]_vars

\* ADC #v at $0800 from A = 0 with C and D clear.
InitADC ==
  \E v \in 0..255, f \in 0..255 :
    /\ f % 2 = 0 /\ (f \div 8) % 2 = 0
    /\ Loaded("adc", <<v>>, Bytes(2048, <<105, v>>), 0, 255, 2048, f)

SpecADC == InitADC /\ [][SingleStep]_vars

\* ADC #b at $0800 from A = a with D set and carry c, a and b packed BCD.
PackedBCD == { 16 * h + l : h \in 0..9, l \in 0..9 }

InitBCD ==
  \E a \in PackedBCD, b \in PackedBCD, c \in {0, 1}, f \in {40, 234} :
    Loaded("bcd", <<a, b, c>>, Bytes(2048, <<105, b>>), a, 255, 2048, f + c)

SpecBCD == InitBCD /\ [][SingleStep]_vars

\* Every opcode the runs fetch is one whose case is translated.
FetchesModelled ==
  \A i \in DOMAIN executed : executed[i].op \notin Implemented \ Modelled

(***************************************************************************)
(* The claims.  A claim about one instruction reads the step that executed *)
(* it: executed' holds what the step fetched, the unprimed variables the   *)
(* machine before it.                                                      *)
(***************************************************************************)
bit(f, n) == (f \div (2 ^ n)) % 2
cell(m, a) == IF a \in DOMAIN m THEN m[a] ELSE undefined
signed(d) == IF d >= 128 THEN d - 256 ELSE d
decimal(b) == 10 * (b \div 16) + (b % 16)
packed(n) == 16 * (n \div 10) + (n % 10)
below(s, n) == (s + 256 - n) % 256

\* C1: executing BRK at p pushes the high then the low byte of p+2, then P
\* with B set, sets I and loads PC from the vector at 0xFFFE/0xFFFF; no other
\* cell changes (but the random register) and the memory image stays usable.
\* The pushes and the vector are read where BRK runs them in its own step, in
\* debug mode.
BRKContract ==
  [][ \A i \in DOMAIN executed' :
        executed'[i].op = 0 =>
          /\ memory'.obj
          /\ debugOn =>
               LET p == executed'[i].pc
               IN  /\ SP' = below(SP, 3)
                   /\ cell(mem', 256 + SP) = (p + 2) \div 256
                   /\ cell(mem', 256 + below(SP, 1)) = (p + 2) % 256
                   /\ cell(mem', 256 + below(SP, 2))
                        = flags + 16 * (1 - bit(flags, 4))
                   /\ bit(flags', 2) = 1
                   /\ PC' = cell(mem, 65534) + 256 * cell(mem, 65535)
                   /\ \A a \in DOMAIN mem \ {256 + SP, 256 + below(SP, 1),
                                             256 + below(SP, 2), 254} :
                        cell(mem', a) = mem[a] ]_vars

\* C2: a JSR at p with SP = s pushes the high then the low byte of p+2 and
\* jumps to its target; an RTS reached with SP back at its value after the JSR
\* and the two pushed bytes unmodified leaves PC = p+3 and SP = s, wraps of the
\* stack pointer included.
JSRThenRTS ==
  [][ inputbox.kind = "jsr" /\ executed' # << >> =>
        LET p == inputbox.args[1]
            s == inputbox.args[2]
        IN  /\ (executed'[1] = [pc |-> p, op |-> 32] /\ SP = s) =>
                 /\ cell(mem', 256 + s) = (p + 2) \div 256
                 /\ cell(mem', 256 + below(s, 1)) = (p + 2) % 256
                 /\ SP' = below(s, 2)
                 /\ PC' = cell(mem, p + 1) + 256 * cell(mem, p + 2)
            /\ ( /\ executed'[1].op = 96
                 /\ SP = below(s, 2)
                 /\ cell(mem, 256 + s) = (p + 2) \div 256
                 /\ cell(mem, 256 + below(s, 1)) = (p + 2) % 256 ) =>
                 (PC' = p + 3 /\ SP' = s) ]_vars

\* C2 witness: the RTS has returned to p+3 with the pushes having wrapped the
\* stack pointer from 0x00 to 0xFF.
JSRThenRTSWrapped ==
  /\ inputbox.kind = "jsr" /\ inputbox.args[2] = 0
  /\ executed # << >> /\ executed[1].op = 96
  /\ PC = inputbox.args[1] + 3 /\ SP = 0

\* The state after the last PLA of a push/pull program.
AfterLastPLA ==
  /\ inputbox.kind = "stack"
  /\ executed = << [pc |-> 2048 + 4 * Len(inputbox.args[1]) - 1, op |-> 104] >>

\* C3, as the code has it: N PHA of pairwise distinct values followed by N PLA
\* leave in A the first value pushed, and SP at its initial value.
StackRoundTripFirst ==
  AfterLastPLA => (A = inputbox.args[1][1] /\ SP = inputbox.args[2])

\* C3 witness: three values pushed and pulled from SP = 1, the stack pointer
\* wrapping both ways.
StackRoundTripWrapped ==
  /\ AfterLastPLA /\ Len(inputbox.args[1]) = 3 /\ inputbox.args[2] = 1
  /\ A = inputbox.args[1][1] /\ SP = 1

\* C3, as the specification states it: N PHA of pairwise distinct values
\* followed by N PLA leave in A the last value pushed, and SP at its initial
\* value.
StackRoundTripLast ==
  AfterLastPLA =>
    (A = inputbox.args[1][Len(inputbox.args[1])] /\ SP = inputbox.args[2])

\* The flag condition of a branch opcode.
BranchCondition(op, f) ==
  CASE op = 144 -> bit(f, 0) = 0      \* BCC
    [] op = 176 -> bit(f, 0) = 1      \* BCS
    [] op = 240 -> bit(f, 1) = 1      \* BEQ
    [] op = 208 -> bit(f, 1) = 0      \* BNE
    [] op = 48  -> bit(f, 7) = 1      \* BMI
    [] op = 16  -> bit(f, 7) = 0      \* BPL
    [] op = 80  -> bit(f, 6) = 0      \* BVC
    [] op = 112 -> bit(f, 6) = 1      \* BVS

AfterADC == executed = << [pc |-> 2048, op |-> 105] >>

\* C5: ADC #v from A = 0, C = 0, D = 0 yields A = v, C = 0, V = 0, Z = (v = 0)
\* and N = (v >= 128), for every 8-bit v.
ADCFromZero ==
  (inputbox.kind = "adc" /\ AfterADC) =>
    LET v == inputbox.args[1]
    IN  /\ A = v
        /\ bit(flags, 0) = 0 /\ bit(flags, 6) = 0
        /\ (bit(flags, 1) = 1) <=> (v = 0)
        /\ (bit(flags, 7) = 1) <=> (v >= 128)

\* C5 witness: ADC #$80 has left A = 0x80 with N set.
ADCFromZeroNegative ==
  /\ inputbox.kind = "adc" /\ AfterADC /\ inputbox.args[1] = 128
  /\ A = 128 /\ bit(flags, 7) = 1

\* C6: with D = 1, ADC of packed-BCD a and b with carry-in c leaves in A the
\* packed-BCD encoding of (a + b + c) mod 100 and sets C iff the decimal sum is
\* at least 100.
ADCDecimalSum ==
  (inputbox.kind = "bcd" /\ AfterADC) =>
    LET sum == decimal(inputbox.args[1]) + decimal(inputbox.args[2])
                 + inputbox.args[3]
    IN  /\ A = packed(sum % 100)
        /\ (bit(flags, 0) = 1) <=> (sum >= 100)

\* C6 witness: 99 + 99 + 1 has left 99 in A with C set.
ADCDecimalCarry ==
  /\ inputbox.kind = "bcd" /\ AfterADC /\ inputbox.args = <<153, 153, 1>>
  /\ A = 153 /\ bit(flags, 0) = 1

\* C7: once HLT has executed, programExecuting is false, no step timer is
\* active and no instruction executes, until the host issues a new execute
\* request; in timer mode and in debug mode, wherever the HLT is.
HLTStops ==
  ended = "halt" =>
    /\ ~programExecuting
    /\ timers = {}
    /\ executed = << >> \/ executed[Len(executed)].op = 2

\* C8: a fetch of an undefined cell ends the program: the step loop stops
\* there and the step timer is cleared, so that no timer keeps ticking on the
\* cell.
UndefinedCellEnds ==
  \A i \in DOMAIN executed :
    executed[i].op = undefined =>
      (i = Len(executed) /\ timers = {} /\ instructionTimer = null)

\* C9: after Escape stopped an executing program, programExecuting is false,
\* no step timer is active and no instruction executes, until the host issues
\* a new execute request.
StopIsFinal ==
  ended = "stop" => (~programExecuting /\ timers = {} /\ executed = << >>)

\* C10: after a WAI at p suspended the program, and with the program still
\* executing, the next instruction of the program that executes, resumed by
\* the host or returned to by RTI, is the one at p+1.
WAIResumesAtNext ==
  [][ (waiting # << >> /\ programExecuting) =>
        \A i \in DOMAIN executed' :
          (executed'[i].pc < 2304 /\ \A j \in 1..(i - 1) : executed'[j].pc >= 2304)
            => executed'[i].pc = waiting[1] + 1 ]_vars

\* C11: a program that refers to a label it never defines does not assemble:
\* the status window ends with exactly one error, #2 for a branch operand and
\* #1 for a word or byte reference, followed by "Could not assemble code.",
\* assembleProgram returns false, no instruction is executed, and
\* programExecuting is false with no timer active.
UndefinedLabelFails ==
  inputbox.kind = "reference" =>
    /\ statusWindow =
         << ErrorLine(IF inputbox.args[1].op \in BranchMnemonics THEN 2 ELSE 1),
            StatusLine("Could not assemble code.") >>
    /\ assembleReturn = "false"
    /\ executed = << >>
    /\ ~programExecuting
    /\ timers = {} /\ instructionTimer = null

\* C12: when assembleProgram has returned true, labelTracker, labelByteTracker
\* and branchTracker are all empty.
TrackersDrained ==
  assembleReturn = "true" =>
    labelTracker = << >> /\ labelByteTracker = << >> /\ branchTracker = << >>

\* C13: for <op> L with its operand at base + 1 and L at the distance d from
\* the byte after the operand: outside -128..127 the assembly fails with error
\* #3 alone; otherwise it succeeds, the operand byte is d mod 256, and the
\* branch, when the interpreter takes it, leaves PC at the address of L.
BranchDisplacement ==
  inputbox.kind = "branch" =>
    LET op == BranchOpcode(inputbox.args[1])
        base == inputbox.args[2]
        d == inputbox.args[3]
        taken == /\ executed # << >>
                 /\ executed[1] = [pc |-> base, op |-> op]
                 /\ BranchCondition(op, 36)
    IN  IF d \notin -128..127
          THEN /\ assembleReturn = "false"
               /\ statusWindow = << ErrorLine(3), StatusLine("Could not assemble code.") >>
          ELSE /\ assembleReturn = "true"
               /\ cell(mem, base + 1) = d % 256
               /\ taken => IF Len(executed) > 1 THEN executed[2].pc = labels["L"]
                                                ELSE PC = labels["L"]
\* C14: in every state reached by executing instructions after a reset, the
\* status register P is a number whose bit 5 (the unused flag) is 1.
UnusedFlagSet == IsNum(flags) /\ bit(flags, 5) = 1

\* C15: in every state, each of the registers A, X and Y holds an integer
\* between 0 and 255.
RegistersAreBytes == A \in 0..255 /\ X \in 0..255 /\ Y \in 0..255

\* C16: in every state the program counter PC is an integer between 0 and
\* 65535 (0xFFFF).
ProgramCounterInRange == PC \in 0..65535

SBCAdvancesByLength ==
  [][ (executed' # << >> /\ executed'[1].op \in SBCOpcodes) =>
        PC' = executed'[1].pc +
                (IF executed'[1].op \in {237, 253, 249} THEN 3 ELSE 2) ]_vars

Scenario1Outcome ==
  (inputbox = Scenario1 /\ \E i \in DOMAIN executed : executed[i].op = 0) =>
    /\ memory.obj /\ cell(mem, 16) = 8
    /\ A = 8
    /\ ~FlagZ(flags) /\ ~FlagN(flags) /\ ~FlagC(flags)

\* C21: Scenario 2.  Assembling LDX #$00 / LOOP: INX / CPX #$05 / BNE LOOP /
\* BRK patches the branch operand with the displacement back to LOOP; in the
\* run every INX finds X below 5 and adds 1 to it, every BNE fetched with
\* X # 5 goes back to LOOP, and the program reaches its BRK with X = 5, Z = 1
\* and C = 1: the loop body has run exactly five times.
Scenario2Outcome ==
  [][ inputbox' = Scenario(2) =>
        /\ assembleReturn' = "true" => cell(mem', 2054) = 251
        /\ \A i \in DOMAIN executed' :
             /\ executed'[i].op = 232 => executed'[i].pc = 2050
             /\ executed'[i].op = 0 =>
                  executed'[i].pc = 2055 /\ X' = 5 /\ FlagZ(flags') /\ FlagC(flags')
        /\ (Len(executed') = 1 /\ inputbox = Scenario(2) /\ assembleReturn' = "no") =>
             /\ executed'[1].op = 232 => X < 5 /\ X' = X + 1
             /\ executed'[1].op = 208 => PC' = IF X = 5 THEN 2055 ELSE 2050 ]_vars

\* Scenario 2 has run to its BRK.
Scenario2Ended ==
  /\ inputbox = Scenario(2) /\ X = 5
  /\ executed # << >> /\ executed[Len(executed)] = [pc |-> 2055, op |-> 0]

\* C22: scenario 3 (LDA #$99, SED, CLC, ADC #$01, BRK) reaches its BRK with
\* A = 0x00, C = 1 and Z = 1.
Scenario3Outcome ==
  (/\ inputbox = Scenario(3)
   /\ executed # << >>
   /\ executed[Len(executed)].op = 0)
    => A = 0 /\ FlagC(flags) /\ FlagZ(flags)

\* Scenario 3 has run to its BRK: A = 0 and C = 1, and Z is clear.
Scenario3ZClear ==
  /\ inputbox = Scenario(3)
  /\ executed # << >>
  /\ executed[Len(executed)] = [pc |-> 2054, op |-> 0]
  /\ A = 0 /\ FlagC(flags) /\ ~FlagZ(flags)


\* C23: scenario 5 (.ORG $FFFC / .DW START / .ORG $8000 / START: LDA #$41 /
\* OUT / HLT).  Every assembly of the source leaves $00, $80 in the reset
\* vector 0xFFFC/0xFFFD and execution starts at 0x8000; the output box never
\* holds anything but one `A`; every timer tick and single step of the
\* running program fetches at PC and either moves PC forward or executes the
\* HLT; and the HLT is executed at 0x8003 with that one `A` in the box,
\* programExecuting false and no step timer.
Scenario5Outcome ==
  [][ inputbox' = Scenario(5) =>
        /\ assembleReturn' = "true" =>
              /\ cell(mem', 65532) = 0 /\ cell(mem', 65533) = 128
              /\ IF executed' = << >> THEN PC' = 32768
                                      ELSE executed'[1].pc = 32768
        /\ output' \in {<< >>, <<65>>}
        /\ (executed' # << >> /\ assembleReturn' = "no") =>
              /\ executed'[1].pc = PC
              /\ executed'[Len(executed')].op = 2 \/ PC' > PC
        /\ \A i \in DOMAIN executed' :
             executed'[i].op = 2 =>
               /\ executed'[i].pc = 32771
               /\ output' = <<65>>
               /\ ~programExecuting'
               /\ timers' = {} ]_vars

Scenario5Halted ==
  /\ inputbox = Scenario(5) /\ ended = "halt"
  /\ executed # << >> /\ executed[Len(executed)] = [pc |-> 32771, op |-> 2]
  /\ output = <<65>> /\ ~programExecuting

\* C24: bit 4 (B) of a status byte pushed on the stack is 1 when PHP pushes
\* it, and 0 when the dispatch of a keyboard or mouse interrupt pushes it
\* (by the deferred callback, or at once in debug mode).
StatusPushB ==
  [][ /\ (Len(executed') = 1 /\ executed'[1].op = 8 /\ memory'.obj) =>
           bit(cell(mem', 256 + SP), 4) = 1
      /\ (timeouts' < timeouts /\ memory.obj) =>
           bit(cell(mem', 256 + SP' + 1), 4) = 0
      /\ (irqCount' > irqCount /\ debugOn /\ memory.obj) =>
           bit(cell(mem', 256 + SP - 2), 4) = 0 ]_vars

\* The hardware half of C24 alone.
HardwarePushB ==
  [][ (timeouts' < timeouts /\ memory.obj) =>
         bit(cell(mem', 256 + SP' + 1), 4) = 0 ]_vars

\* The PHP half of C24 alone.
PHPPushB ==
  [][ (Len(executed') = 1 /\ executed'[1].op = 8 /\ memory'.obj) =>
         bit(cell(mem', 256 + SP), 4) = 1 ]_vars

\* C25: a step that fetches a defined byte without a case in
\* executeInstruction aborts execution: it writes the diagnostic with the
\* address and the byte, leaves no step timer, programExecuting false, and
\* PC, the registers, the flags and memory other than 0x00FE as they were;
\* and no instruction is fetched after it until the host requests execute
\* again (a single step of execute() in debug mode is such a request).
Aborted ==
  /\ statusWindow # << >>
  /\ statusWindow[Len(statusWindow)].text = "Encountered invalid instruction at"

InvalidOpcodeAborts ==
  [][ /\ \A i \in DOMAIN executed' :
           (executed'[i].op # undefined /\ executed'[i].op \notin Implemented) =>
             /\ i = Len(executed')
             /\ Aborted'
             /\ statusWindow'[Len(statusWindow')] =
                  InvalidLine(executed'[i].pc, executed'[i].op)
             /\ timers' = {} /\ instructionTimer' = null
             /\ ~programExecuting'
             /\ PC' = executed'[i].pc
             /\ (i = 1 /\ assembleReturn' = "no") =>
                  /\ <<A', X', Y', SP', flags'>> = <<A, X, Y, SP, flags>>
                  /\ \A a \in (DOMAIN mem \cup DOMAIN mem') \ {254} :
                       cell(mem', a) = cell(mem, a)
      /\ (Aborted /\ assembleReturn' = "no" /\ ~(debugOn /\ programExecuting)) =>
           executed' = << >> ]_vars

\* Each clause of C25 on its own: the abort leaves programExecuting false;
\* it leaves no step timer; nothing is fetched after it.
AbortStopsExecuting ==
  [][ \A i \in DOMAIN executed' :
        (executed'[i].op # undefined /\ executed'[i].op \notin Implemented) =>
          ~programExecuting' ]_vars
AbortClearsTimers ==
  [][ \A i \in DOMAIN executed' :
        (executed'[i].op # undefined /\ executed'[i].op \notin Implemented) =>
          timers' = {} ]_vars
AbortIsFinal ==
  [][ (Aborted /\ assembleReturn' = "no" /\ ~(debugOn /\ programExecuting)) =>
         executed' = << >> ]_vars

\* The step is one STA Absolute of the byte in A to the address a, run by a
\* timer tick or a single step.
StoresTo(a) ==
  /\ Len(executed') = 1 /\ assembleReturn' = "no" /\ memory.obj
  /\ executed'[1].op = 141
  /\ a = cell(mem, executed'[1].pc + 1) + 256 * cell(mem, executed'[1].pc + 2)

\* C26: an instruction that stores a non-zero byte to 0x06B0 has screen.clear
\* called exactly once (and nothing else) and leaves 0 in the cell; one that
\* stores a non-zero byte to 0x06B1 has beep called exactly once and leaves 0
\* in the cell; a store of 0 to either calls neither; and after any
\* instruction step each of the two cells holds 0 or was never written.
TriggerCells ==
  [][ /\ (StoresTo(1712) /\ A > 0) =>
           deviceCalls' = << <<"clear">> >> /\ cell(mem', 1712) = 0
      /\ (StoresTo(1713) /\ A > 0) =>
           deviceCalls' = << <<"beep">> >> /\ cell(mem', 1713) = 0
      /\ ((StoresTo(1712) \/ StoresTo(1713)) /\ A = 0) => deviceCalls' = << >>
      /\ executed' # << >> =>
           cell(mem', 1712) \in {0, undefined} /\ cell(mem', 1713) \in {0, undefined}
    ]_vars

\* C26 without its last clause.
TriggerStores ==
  [][ /\ (StoresTo(1712) /\ A > 0) =>
           deviceCalls' = << <<"clear">> >> /\ cell(mem', 1712) = 0
      /\ (StoresTo(1713) /\ A > 0) =>
           deviceCalls' = << <<"beep">> >> /\ cell(mem', 1713) = 0
      /\ ((StoresTo(1712) \/ StoresTo(1713)) /\ A = 0) => deviceCalls' = << >>
    ]_vars

\* C27: an instruction that stores a byte v to an address a in 0x0200..0x06AF
\* leaves v in the cell and has screen.drawPixel called exactly once, with
\* ((a - 0x0200) mod 40, floor((a - 0x0200) / 40), v); every call of drawPixel
\* has 0 <= x <= 39 and 0 <= y <= 29; a store outside the range calls no
\* drawPixel; and once DEFINE PTR $0200 / LDA #$FF / STA PTR / BRK has run to
\* its BRK, memory[0x0200] is 0xFF.
PixelCells ==
  [][ /\ \A a \in 512..1711 :
           StoresTo(a) =>
             /\ cell(mem', a) = A
             /\ deviceCalls' = << <<"drawPixel", (a - 512) % 40, (a - 512) \div 40, A>> >>
      /\ \A a \in {511, 1712, 1713, 1714, 16} :
           StoresTo(a) => \A i \in DOMAIN deviceCalls' : deviceCalls'[i][1] # "drawPixel"
      /\ \A i \in DOMAIN deviceCalls' :
           deviceCalls'[i][1] = "drawPixel" =>
             deviceCalls'[i][2] \in 0..39 /\ deviceCalls'[i][3] \in 0..29
      /\ (inputbox' = Scenario(4) /\ \E i \in DOMAIN executed' : executed'[i].op = 0) =>
           memory'.obj /\ cell(mem', 512) = 255
    ]_vars

\* C27 without the memory of its scenario after the BRK.
PixelStores ==
  [][ /\ \A a \in 512..1711 :
           StoresTo(a) =>
             /\ cell(mem', a) = A
             /\ deviceCalls' = << <<"drawPixel", (a - 512) % 40, (a - 512) \div 40, A>> >>
      /\ \A a \in {511, 1712, 1713, 1714, 16} :
           StoresTo(a) => \A i \in DOMAIN deviceCalls' : deviceCalls'[i][1] # "drawPixel"
      /\ \A i \in DOMAIN deviceCalls' :
           deviceCalls'[i][1] = "drawPixel" =>
             deviceCalls'[i][2] \in 0..39 /\ deviceCalls'[i][3] \in 0..29
    ]_vars

\* Scenario 4 has stored 0xFF to 0x0200 with drawPixel(0, 0, 0xFF).
Scenario4Pixel ==
  /\ inputbox = Scenario(4)
  /\ executed = << [pc |-> 2050, op |-> 141] >>
  /\ deviceCalls = << <<"drawPixel", 0, 0, 255>> >>
  /\ cell(mem, 512) = 255

\* The memory a key-down of keyCode leaves, with the keyboard interrupt
\* checkbox off.
AfterKey(keyCode, shiftKey) == onkeydown(Cur(<<0>>), keyCode, shiftKey, FALSE).mem

\* The cells that differ between two memories.
Changed(m1, m2) == { a \in DOMAIN m1 \cup DOMAIN m2 : cell(m1, a) # cell(m2, a) }

\* C28: while a program is executing, a key-down with the keyboard interrupt
\* checkbox off writes 1 to 0x06E0 for the left arrow, 0x06E1 for up, 0x06E2
\* for right, 0x06E3 for down and 0x06E4 for Enter, and no key-down changes a
\* cell outside 0x06E0..0x06E4.
KeyCells ==
  (programExecuting /\ memory.obj) =>
    /\ \A keyCode \in 37..40 : cell(AfterKey(keyCode, FALSE), 1760 + (keyCode - 37)) = 1
    /\ cell(AfterKey(13, FALSE), 1764) = 1
    /\ \A ev \in InputKeys : Changed(mem, AfterKey(ev[1], ev[2])) \subseteq 1760..1764

\* The clauses of C28 on their own: the arrows; Enter; the range.
ArrowCells ==
  (programExecuting /\ memory.obj) =>
    \A keyCode \in 37..40 : cell(AfterKey(keyCode, FALSE), 1760 + (keyCode - 37)) = 1
EnterCell ==
  (programExecuting /\ memory.obj) => cell(AfterKey(13, FALSE), 1764) = 1
KeyRange ==
  (programExecuting /\ memory.obj) =>
    \A ev \in InputKeys : Changed(mem, AfterKey(ev[1], ev[2])) \subseteq 1760..1764

\* The statements of inputarray that define k with directive op.
Defining(inputarray, op, k) ==
  { i \in DOMAIN inputarray : inputarray[i].op = op /\ inputarray[i].lab = k }

\* C29: after every assembly no name is a key of both the constant table
\* and the label table, and no key of either is a reserved word in upper
\* case.  A source whose only offence is a constant or label with a reserved
\* name fails with error 5; a constant defined twice, with error 6; a label
\* defined twice, with error 14; a label with the name of a constant, with
\* error 15; a source with any of them fails with one of these errors, and
\* one with none of them assembles, with exactly its constants and labels as
\* the keys of the two tables.
NamesExclusive ==
  [][ (assembleReturn' # "no" /\ inputbox' \in NamePrograms) =>
        LET src == inputbox'.args[1]
            Reserved == \E k \in Names : /\ toUpperCase(k) \in reserved
                                          /\ Defining(src, "DEFINE", k)
                                               \cup Defining(src, "LABEL", k) # {}
            Twice(op) == \E k \in Names : Cardinality(Defining(src, op, k)) > 1
            Both == \E k \in Names : /\ Defining(src, "DEFINE", k) # {}
                                      /\ Defining(src, "LABEL", k) # {}
            Error(n) == /\ assembleReturn' = "false"
                        /\ \E i \in DOMAIN statusWindow' : statusWindow'[i] = ErrorLine(n)
        IN  /\ DOMAIN labels' \cap DOMAIN constants' = {}
            /\ \A k \in DOMAIN labels' \cup DOMAIN constants' : toUpperCase(k) \notin reserved
            /\ (Reserved /\ ~Twice("DEFINE") /\ ~Twice("LABEL") /\ ~Both) => Error(5)
            /\ (Twice("DEFINE") /\ ~Reserved /\ ~Twice("LABEL") /\ ~Both) => Error(6)
            /\ (Twice("LABEL") /\ ~Reserved /\ ~Twice("DEFINE") /\ ~Both) => Error(14)
            /\ (Both /\ ~Reserved /\ ~Twice("DEFINE") /\ ~Twice("LABEL")) => Error(15)
            /\ (Reserved \/ Twice("DEFINE") \/ Twice("LABEL") \/ Both) =>
                 \E n \in {5, 6, 14, 15} : Error(n)
            /\ ~(Reserved \/ Twice("DEFINE") \/ Twice("LABEL") \/ Both) =>
                 /\ assembleReturn' = "true"
                 /\ DOMAIN constants' = {k \in Names : Defining(src, "DEFINE", k) # {}}
                 /\ DOMAIN labels' = {k \in Names : Defining(src, "LABEL", k) # {}}
    ]_vars

\* PTR: / DEFINE PTR 1 / HLT has failed with error 15: PTR is a constant
\* and no label.
LabelIsConstant ==
  /\ inputbox.kind = "statements"
  /\ inputbox.args[1] = <<Label("PTR"), Define("PTR", 1), Implied("HLT")>>
  /\ assembleReturn = "false"
  /\ statusWindow = <<ErrorLine(15), StatusLine("Could not assemble code.")>>
  /\ DOMAIN constants = {"PTR"} /\ DOMAIN labels = {}

\* The cells of the stack page that differ between two memories.
StackChanged(m1, m2) == Changed(m1, m2) \cap 256..511

\* C30: an input handler accepts an interrupt only with a program executing,
\* its checkbox on and P.I clear; when the frame is pushed and PC loaded from
\* 0xFFFE/0xFFFF (by the deferred callback, or by the handler in debug mode)
\* P.I is clear; and a step that accepts no
\* interrupt, runs no callback and executes no instruction leaves PC, SP
\* and the stack as they were.
DispatchGuarded ==
  [][ /\ irqCount' > irqCount => (programExecuting /\ checked' /\ ~FlagI(flags))
      /\ (timeouts' < timeouts /\ memory.obj) => ~FlagI(flags)
      /\ (irqCount' = irqCount /\ timeouts' = timeouts /\ executed' = << >>
            /\ assembleReturn' = "no") =>
           (PC' = PC /\ SP' = SP /\ StackChanged(mem, mem') = {}) ]_vars

\* The clauses of C30 on their own.
AcceptGuarded ==
  [][ irqCount' > irqCount => (programExecuting /\ checked' /\ ~FlagI(flags)) ]_vars
DispatchFindsIClear ==
  [][ (timeouts' < timeouts /\ memory.obj) => ~FlagI(flags) ]_vars
NoDispatchNoChange ==
  [][ (irqCount' = irqCount /\ timeouts' = timeouts /\ executed' = << >>
        /\ assembleReturn' = "no") =>
       (PC' = PC /\ SP' = SP /\ StackChanged(mem, mem') = {}) ]_vars

\* C31: the dispatch of a keyboard or mouse interrupt sets I: the deferred
\* callback that pushes the frame and loads PC from 0xFFFE/0xFFFF leaves
\* P.I set, so that no event is accepted until the handler clears it.
DispatchSetsI ==
  [][ (timeouts' < timeouts /\ memory.obj) => FlagI(flags') ]_vars

\* C32: at every moment at most one step timer is active, instructionTimer
\* refers to it, and none is active while programExecuting is false.
OneStepTimer ==
  /\ Cardinality(timers) <= 1
  /\ timers \subseteq {instructionTimer}
  /\ ~programExecuting => timers = {}

\* The clauses of C32 on their own.
AtMostOneTimer == Cardinality(timers) <= 1
TimerIsInstructionTimer == timers \subseteq {instructionTimer}
NoTimerWhenStopped == ~programExecuting => timers = {}

\* The opcodes that do not set PC themselves: every implemented opcode that
\* is not a branch, JMP, JSR, RTS, RTI, BRK, HLT or WAI.
StraightLine ==
  Implemented \ (BranchOpcodes \cup {76, 108, 32, 96, 64, 0, 2, 247})

\* The bytes of an instruction by the addressing mode of its operand.
EncodedLength(st) ==
  LET t == getOperandType(st.mode, st.v)
  IN  IF st.mode \in {"implied", "accumulator"} THEN 1
      ELSE IF t \in {"abs", "abx", "aby"} THEN 3
      ELSE IF t = "zpy" /\ Opcodes(st.op).zpy = undefined THEN 3
      ELSE 2

\* C33: one step of an opcode that is not a branch, JMP, JSR, RTS, RTI, BRK,
\* HLT or WAI advances PC by the number of bytes the assembler emitted for the
\* instruction: the interpreter resumes at the next assembled instruction
\* (here the one labelled NEXT).
ResumesAtNext ==
  [][ ( /\ executed' # << >>
        /\ executed'[1].pc = 2048 /\ executed'[1].op \in StraightLine
        /\ "NEXT" \in DOMAIN labels' )
      => (IF Len(executed') > 1 THEN executed'[2].pc ELSE PC') = labels'["NEXT"] ]_vars

\* The assembler's half of C33: the instruction at $0800 takes 1 byte when
\* implied or on the accumulator, 3 with an absolute operand and 2 otherwise.
EmittedLength ==
  ( /\ inputbox.kind = "statements" /\ assembleReturn = "true"
    /\ inputbox.args[1][1].op \notin {"JMP", "JSR"} )
    => labels["NEXT"] = 2048 + EncodedLength(inputbox.args[1][1])

\* The interpreter's half of C33 without the ADC and SBC absolute modes.
OthersResumeAtNext ==
  [][ ( /\ executed' # << >>
        /\ executed'[1].pc = 2048
        /\ executed'[1].op \in StraightLine \ {109, 125, 121, 237, 253, 249}
        /\ "NEXT" \in DOMAIN labels' )
      => (IF Len(executed') > 1 THEN executed'[2].pc ELSE PC') = labels'["NEXT"] ]_vars

\* The opcode the switch case of st's mnemonic holds for the addressing mode
\* of st's operand, undefined when it holds none.
SlotOf(st) ==
  LET slot(t) ==
        IF st.op \in {"JMP", "JSR"}
          THEN (IF t \in {"zp", "abs"} THEN JumpOpcodes(st.op).abs
                ELSE IF t = "ind" THEN JumpOpcodes(st.op).ind ELSE undefined)
        ELSE IF t = "ind" THEN undefined
        ELSE IF t = "zp" /\ Opcodes(st.op).zp = undefined THEN Opcodes(st.op).abs
        ELSE IF t = "zpx" /\ Opcodes(st.op).zpx = undefined THEN Opcodes(st.op).abx
        ELSE IF t = "zpy" /\ Opcodes(st.op).zpy = undefined THEN Opcodes(st.op).aby
        ELSE Opcodes(st.op)[t]
  IN  slot(getOperandType(st.mode, st.v))

\* The program in the input box was assembled by the last step and begins with
\* an instruction whose operand is written in an addressing mode.
AssembledOperand ==
  /\ inputbox.kind = "statements" /\ assembleReturn # "no"
  /\ inputbox.args[1][1].op \in OperandMnemonics
  /\ inputbox.args[1][1].mode \in OperandModes
  /\ getOperandType(inputbox.args[1][1].mode, inputbox.args[1][1].v) # "none"

\* C37: assembling a mnemonic that takes an operand (JMP and JSR included) in
\* an addressing mode for which it has no opcode slot raises error #21 and
\* aborts, and no undefined byte is emitted in an opcode position.
NoSlotIsError21 ==
  (AssembledOperand /\ SlotOf(inputbox.args[1][1]) = undefined)
    => /\ assembleReturn = "false"
       /\ statusWindow = <<ErrorLine(21), StatusLine("Could not assemble code.")>>
       /\ executed = << >> /\ ~programExecuting

\* C37 for the mnemonics that go through writeInstruction and for JMP, when
\* the assembler runs with `memory` still the memory object.
NoSlotIsError21Instruction ==
  ( /\ AssembledOperand /\ SlotOf(inputbox.args[1][1]) = undefined
    /\ inputbox.args[1][1].op # "JSR" /\ assembleReturn # "throw" )
    => /\ assembleReturn = "false"
       /\ statusWindow = <<ErrorLine(21), StatusLine("Could not assemble code.")>>
       /\ executed = << >> /\ ~programExecuting

\* C37, the opcode position: an assembled instruction begins with a byte.
OpcodeEmitted ==
  (AssembledOperand /\ assembleReturn = "true") => cell(mem, 2048) \in 0..255

\* C34: in binary mode SBC leaves A' = (A - operand - (1 - C)) mod 256, C set
\* iff A >= operand + (1 - C), Z iff A' = 0, N iff bit 7 of A', and V iff the
\* signed difference is outside -128..127.
SBCBinary ==
  [][ (executed' = << [pc |-> 2048, op |-> 233] >> /\ ~FlagD(flags)) =>
        LET m == cell(mem, 2049)
            borrow == 1 - bit(flags, 0)
        IN  /\ A' = (A - m - borrow) % 256
            /\ FlagC(flags') <=> (A >= m + borrow)
            /\ FlagZ(flags') <=> (A' = 0)
            /\ FlagN(flags') <=> (bit(A', 7) = 1)
            /\ FlagV(flags') <=> (signed(A) - signed(m) - borrow \notin -128..127) ]_vars

\* C34 without the Z clause.
SBCBinaryNoZ ==
  [][ (executed' = << [pc |-> 2048, op |-> 233] >> /\ ~FlagD(flags)) =>
        LET m == cell(mem, 2049)
            borrow == 1 - bit(flags, 0)
        IN  /\ A' = (A - m - borrow) % 256
            /\ FlagC(flags') <=> (A >= m + borrow)
            /\ FlagN(flags') <=> (bit(A', 7) = 1)
            /\ FlagV(flags') <=> (signed(A) - signed(m) - borrow \notin -128..127) ]_vars

\* C34, the Z clause whenever the difference is not -256.
SBCBinaryZ ==
  [][ ( /\ executed' = << [pc |-> 2048, op |-> 233] >> /\ ~FlagD(flags)
        /\ A - cell(mem, 2049) - (1 - bit(flags, 0)) # -256 )
      => (FlagZ(flags') <=> (A' = 0)) ]_vars

\* The step executed the instruction at $0800 alone, an opcode of ops.
Stepped(ops) ==
  /\ Len(executed') = 1 /\ executed'[1].pc = 2048 /\ executed'[1].op \in ops

\* C35: LSR, in every addressing mode and for every byte b, writes back
\* b >> 1, moves bit 0 of b into C, clears N, and sets Z iff the result is 0.
LSRContract ==
  [][ Stepped(LSROpcodes) =>
        LET b == IF executed'[1].op = 74 THEN A ELSE cell(mem, 16)
            result == IF executed'[1].op = 74 THEN A' ELSE cell(mem', 16)
        IN  /\ result = b \div 2
            /\ FlagC(flags') <=> (b % 2 = 1)
            /\ ~FlagN(flags')
            /\ FlagZ(flags') <=> (result = 0) ]_vars

\* C35 on the accumulator.
LSRAccumulatorContract ==
  [][ Stepped({74}) =>
        /\ A' = A \div 2
        /\ FlagC(flags') <=> (A % 2 = 1)
        /\ ~FlagN(flags')
        /\ FlagZ(flags') <=> (A' = 0) ]_vars

\* C35 on memory, without the Z clause.
LSRMemoryNoZ ==
  [][ Stepped(LSROpcodes \ {74}) =>
        /\ cell(mem', 16) = cell(mem, 16) \div 2
        /\ FlagC(flags') <=> (cell(mem, 16) % 2 = 1)
        /\ ~FlagN(flags') ]_vars

\* Z after LSR on memory as the code sets it: from the byte read.
LSRMemoryZ ==
  [][ Stepped(LSROpcodes \ {74}) => (FlagZ(flags') <=> (cell(mem, 16) = 0)) ]_vars

\* C36: BIT, zero page and absolute, copies bit 6 of the memory operand m
\* into V whatever A is, sets Z iff (A AND m) = 0, and leaves A, X, Y, C and
\* memory unchanged.
BITContract ==
  [][ Stepped(BITOpcodes) =>
        /\ FlagV(flags') <=> (bit(cell(mem, 16), 6) = 1)
        /\ FlagZ(flags') <=> (And(A, cell(mem, 16)) = 0)
        /\ A' = A /\ X' = X /\ Y' = Y
        /\ FlagC(flags') <=> FlagC(flags)
        /\ Changed(mem, mem') \subseteq {254} ]_vars

\* C36 without the V clause.
BITNoV ==
  [][ Stepped(BITOpcodes) =>
        /\ FlagZ(flags') <=> (And(A, cell(mem, 16)) = 0)
        /\ A' = A /\ X' = X /\ Y' = Y
        /\ FlagC(flags') <=> FlagC(flags)
        /\ Changed(mem, mem') \subseteq {254} ]_vars

\* V after BIT as the code sets it: bit 6 of A AND m.
BITOverflow ==
  [][ Stepped(BITOpcodes) =>
        (FlagV(flags') <=> (bit(And(A, cell(mem, 16)), 6) = 1)) ]_vars

\* The step is a key-down other than Escape or a mouse-down, handled with the
\* interrupt checkbox off.
EventToggleOff ==
  /\ KeyDownOf(InputKeys \ {<<27, FALSE>>}) \/ MouseDownOf(InputButtons)
  /\ ~checked'

\* C38: a key-down (other than Escape) or mouse-down handled with its
\* interrupt toggle off changes no register, flag, SP or PC and no memory cell
\* outside 0x06E0..0x06F2; with no program executing it changes no CPU or
\* memory state at all.
EventFrame ==
  [][ EventToggleOff =>
        /\ A' = A /\ X' = X /\ Y' = Y /\ flags' = flags /\ SP' = SP /\ PC' = PC
        /\ Changed(mem, mem') \subseteq 1760..1778
        /\ ~programExecuting => mem' = mem ]_vars

\* A letter and the middle button went down with the toggles off while the
\* program ran: their cells are written, the registers are as the reset and
\* the loop left them.
EventsHandled ==
  /\ programExecuting /\ ~checked
  /\ cell(mem, 1764) = 97 /\ cell(mem, 1778) = 1
  /\ A = 0 /\ flags = 36 /\ SP = 255 /\ PC = 2048

\* The step is an input handler in debug mode dispatching its interrupt:
\* brkInterrupt pushes the frame, loads PC from 0xFFFE/0xFFFF and runs the
\* handler's first instruction, the RTI at ISR, on the three bytes just pushed.
DispatchedAndReturned ==
  /\ irqCount' > irqCount /\ debugOn /\ memory.obj
  /\ Len(executed') = 1 /\ executed'[1].op = 64

\* C39: interrupt transparency.  When a keyboard or mouse interrupt is
\* dispatched between two instructions and its handler returns with RTI on the
\* three pushed bytes, PC, SP and P are right after the RTI what they were just
\* before the dispatch; RTI adds nothing to the pulled PC.
InterruptTransparent ==
  [][ DispatchedAndReturned => (PC' = PC /\ SP' = SP /\ flags' = flags) ]_vars

\* C39 for PC and SP alone.
InterruptRestoresPCSP ==
  [][ DispatchedAndReturned => (PC' = PC /\ SP' = SP) ]_vars

\* P after the RTI as the code leaves it: the pushed byte, P | 16.
InterruptReturnsBSet ==
  [][ DispatchedAndReturned => flags' = Or(flags, 16) ]_vars

\* The state after a PLA of a push/pull program, and which of its PLAs it is.
AfterPLA ==
  /\ inputbox.kind = "stack"
  /\ executed # << >> /\ executed[1].op = 104
PLAIndex == executed[1].pc - (2048 + 3 * Len(inputbox.args[1])) + 1

\* C40: the stack is last-in first-out.  After N PHA and then N PLA, the k-th
\* PLA has loaded into A the value of the (N-k+1)-th PHA and set Z and N from
\* it, from every initial SP, with or without a wrap of SP past 0x00.
StackLIFO ==
  AfterPLA =>
    LET pushed == inputbox.args[1][Len(inputbox.args[1]) - PLAIndex + 1]
    IN  /\ A = pushed
        /\ FlagZ(flags) <=> (pushed = 0)
        /\ FlagN(flags) <=> (pushed >= 128)

\* C40 witness: 256 values pushed from SP = $01, the pushes wrapping past $00
\* and filling the page; the 255th PLA, wrapping back from $FF to $00, loads
\* the second value pushed.
StackLIFOFullPage ==
  /\ AfterPLA /\ Len(inputbox.args[1]) = 256 /\ inputbox.args[2] = 1
  /\ PLAIndex = 255 /\ SP = 0
  /\ A = inputbox.args[1][2] /\ A = 254 /\ FlagN(flags) /\ ~FlagZ(flags)

====
